---- MODULE Spec2Model ----
(***************************************************************************)
(* KNES: a model of the emulation kernel.  The machine state is the NES    *)
(* aggregate (CPU, PPU, APU, mapper, cartridge, RAM); the actions are the  *)
(* steps of emulate(): one CPU step, then the PPU tick loop, then the APU  *)
(* tick loop.  Every helper is a translation of the function of the same   *)
(* name in src/.  Integers keep their C++ width (uint8_t, uint16_t).       *)
(***************************************************************************)
EXTENDS Integers, Sequences, FiniteSets, TLC

VARIABLES
    nes,        \* the NES aggregate: cpu, ppu, apu, mapper, cartridge, RAM, controllers
    pc,         \* position inside emulate(): "cpu", "ppu", "apu", "done"
    cycles,     \* emulate()'s local 'cycles' (CPU cycles still to run)
    cpuCycles,  \* emulate()'s local 'cpuCycles' of the current iteration
    i,          \* loop index of the running PPU / APU tick loop
    last,       \* history: what the most recent CPU step did
    hist        \* history: tick counters and interrupt bookkeeping

vars == <<nes, pc, cycles, cpuCycles, i, last, hist>>

-----------------------------------------------------------------------------
(* Fixed-width arithmetic and bit operations.                              *)

U8(x) == x % 256
U16(x) == x % 65536
Bit(x, n) == (x \div (2 ^ n)) % 2

RECURSIVE BitAnd(_, _)
BitAnd(a, b) ==
    IF a = 0 \/ b = 0 THEN 0
    ELSE (a % 2) * (b % 2) + 2 * BitAnd(a \div 2, b \div 2)

RECURSIVE BitOr(_, _)
BitOr(a, b) ==
    IF a = 0 THEN b
    ELSE IF b = 0 THEN a
    ELSE (IF (a % 2) + (b % 2) > 0 THEN 1 ELSE 0) + 2 * BitOr(a \div 2, b \div 2)

RECURSIVE BitXor(_, _)
BitXor(a, b) ==
    IF a = 0 THEN b
    ELSE IF b = 0 THEN a
    ELSE (((a % 2) + (b % 2)) % 2) + 2 * BitXor(a \div 2, b \div 2)

\* C++ '%' on ints truncates toward zero (the result has the dividend's sign).
CRem(a, n) == IF a >= 0 THEN a % n ELSE -((-a) % n)

\* A byte array that starts zeroed (memset 0) is kept as the function of its
\* non-zero cells; Get and Put are the array read and write.
ZeroArray == [k \in {} |-> 0]
Get(arr, k) == IF k \in DOMAIN arr THEN arr[k] ELSE 0
Put(arr, k, v) ==
    IF v = 0
    THEN IF k \in DOMAIN arr THEN [j \in (DOMAIN arr) \ {k} |-> arr[j]] ELSE arr
    ELSE (k :> v) @@ arr

-----------------------------------------------------------------------------
(* Program constants (src/NES.h).                                          *)

CPU_FREQ == 1789773

interruptNone == 1
interruptNMI == 2
interruptIRQ == 3

modeAbsolute == 1
modeAbsoluteX == 2
modeAbsoluteY == 3
modeAccumulator == 4
modeImmediate == 5
modeImplied == 6
modeIndexedIndirect == 7
modeIndirect == 8
modeIndirectIndexed == 9
modeRelative == 10
modeZeroPage == 11
modeZeroPageX == 12
modeZeroPageY == 13

MirrorHorizontal == 0
MirrorVertical == 1
MirrorSingle0 == 2
MirrorSingle1 == 3
MirrorFour == 4

mirror_tbl == <<
    <<0, 0, 1, 1>>,
    <<0, 1, 0, 1>>,
    <<0, 0, 0, 0>>,
    <<1, 1, 1, 1>>,
    <<0, 1, 2, 3>> >>

dmc_tbl == <<214, 190, 170, 160, 143, 127, 113, 107, 95, 80, 71, 64, 53, 42, 36, 27>>

-----------------------------------------------------------------------------
(* Cartridge PRG-ROM images.  A cartridge's PRG array is immutable; its    *)
(* content is the input of the emulator.  Each image places a routine at   *)
(* $E000 (reset target), an NMI handler at $E080 and an IRQ/BRK handler at *)
(* $E0C0, all inside the last 8 KiB bank; every other byte is $EA.         *)

Roms ==
    << \* 1: spin
       [ main |-> <<76, 0, 224>>,                       \* JMP $E000
         nmi  |-> <<64>>,                               \* RTI
         irq  |-> <<64>> ],                             \* RTI
       \* 2: enable NMI, then CLI and spin
       [ main |-> <<169, 128, 141, 0, 32,               \* LDA #$80 ; STA $2000
                    88, 76, 6, 224>>,                   \* CLI ; JMP $E006
         nmi  |-> <<72, 104, 64>>,                      \* PHA ; PLA ; RTI
         irq  |-> <<141, 0, 224, 64>> ],                \* STA $E000 ; RTI
       \* 3: frame IRQ on (4-step), rendering on, NMI on, CLI, slow loop
       [ main |-> <<169, 0, 141, 23, 64,                \* LDA #$00 ; STA $4017
                    169, 24, 141, 1, 32,                \* LDA #$18 ; STA $2001
                    169, 128, 141, 0, 32,               \* LDA #$80 ; STA $2000
                    88,                                 \* CLI
                    254, 0, 3, 76, 16, 224>>,           \* INC $0300,X ; JMP $E010
         nmi  |-> <<64>>,
         irq  |-> <<141, 0, 224, 64>> ],
       \* 4: rendering on, arm the MMC3 counter with I = 1, wait, then CLI
       [ main |-> <<169, 24, 141, 1, 32,                \* LDA #$18 ; STA $2001
                    169, 1, 141, 0, 192,                \* LDA #$01 ; STA $C000
                    141, 1, 224,                        \* STA $E001
                    162, 24, 202, 208, 253,             \* LDX #24 ; DEX ; BNE -3
                    88, 76, 19, 224>>,                  \* CLI ; JMP $E013
         nmi  |-> <<64>>,
         irq  |-> <<141, 0, 224, 64>> ],
       \* 5: enable NMI, then poll $2002 at once
       [ main |-> <<169, 128, 141, 0, 32,               \* LDA #$80 ; STA $2000
                    173, 2, 32,                         \* LDA $2002
                    76, 8, 224>>,                       \* JMP $E008
         nmi  |-> <<64>>,
         irq  |-> <<64>> ],
       \* 6: stack and flags traffic, then BRK
       [ main |-> <<8, 104, 169, 255, 72, 40,           \* PHP ; PLA ; LDA #$FF ; PHA ; PLP
                    8, 169, 0, 72, 40, 0, 234,          \* PHP ; LDA #$00 ; PHA ; PLP ; BRK ; (pad)
                    76, 13, 224>>,                      \* JMP $E00D
         nmi  |-> <<64>>,
         irq  |-> <<104, 72, 64>> ],                    \* PLA ; PHA ; RTI
       \* 7: CLI, rendering on, arm the MMC3 counter, NMI on, OAM DMA at once
       [ main |-> <<88, 169, 24, 141, 1, 32,            \* CLI ; LDA #$18 ; STA $2001
                    169, 1, 141, 0, 192,                \* LDA #$01 ; STA $C000
                    141, 1, 224,                        \* STA $E001
                    169, 128, 162, 2,                   \* LDA #$80 ; LDX #$02
                    141, 0, 32, 142, 20, 64,            \* STA $2000 ; STX $4014
                    76, 24, 224>>,                      \* JMP $E018
         nmi  |-> <<64>>,
         irq  |-> <<141, 0, 224, 64>> ],
       \* 8: start a DMC sample, CLI, spin
       [ main |-> <<169, 1, 141, 19, 64,                \* LDA #$01 ; STA $4013
                    169, 16, 141, 21, 64,               \* LDA #$10 ; STA $4015
                    88, 76, 11, 224>>,                  \* CLI ; JMP $E00B
         nmi  |-> <<64>>,
         irq  |-> <<64>> ],
       \* 9: fill the ends of page 2, OAMADDR = $FE, OAM DMA of page 2, spin
       [ main |-> <<169, 90, 141, 0, 2,                 \* LDA #$5A ; STA $0200
                    169, 165, 141, 255, 2,              \* LDA #$A5 ; STA $02FF
                    169, 254, 141, 3, 32,               \* LDA #$FE ; STA $2003
                    169, 2, 141, 20, 64,                \* LDA #$02 ; STA $4014
                    76, 20, 224>>,                      \* JMP $E014
         nmi  |-> <<64>>,
         irq  |-> <<64>> ],
       \* 10: the same with the DMA started by a five-cycle store
       [ main |-> <<169, 90, 141, 0, 2,                 \* LDA #$5A ; STA $0200
                    169, 165, 141, 255, 2,              \* LDA #$A5 ; STA $02FF
                    169, 254, 141, 3, 32,               \* LDA #$FE ; STA $2003
                    169, 2, 157, 20, 64,                \* LDA #$02 ; STA $4014,X
                    76, 20, 224>>,                      \* JMP $E014
         nmi  |-> <<64>>,
         irq  |-> <<64>> ],
       \* 11: OAM entry 0 = (y 32, tile 0, attributes 0, x 16) by DMA of page 2,
       \* rendering on, spin
       [ main |-> <<169, 32, 141, 0, 2,                 \* LDA #$20 ; STA $0200
                    169, 16, 141, 3, 2,                 \* LDA #$10 ; STA $0203
                    169, 2, 141, 20, 64,                \* LDA #$02 ; STA $4014
                    169, 30, 141, 1, 32,                \* LDA #$1E ; STA $2001
                    76, 20, 224>>,                      \* JMP $E014
         nmi  |-> <<64>>,
         irq  |-> <<64>> ],
       \* 12: OAM DMA, rendering on, MMC3 latch 1, reload, IRQ enable, CLI, spin
       [ main |-> <<169, 2, 141, 20, 64,                \* LDA #$02 ; STA $4014
                    169, 24, 141, 1, 32,                \* LDA #$18 ; STA $2001
                    169, 1, 141, 0, 192,                \* LDA #$01 ; STA $C000
                    141, 1, 192, 141, 1, 224,           \* STA $C001 ; STA $E001
                    88, 76, 22, 224>>,                  \* CLI ; JMP $E016
         nmi  |-> <<64>>,
         irq  |-> <<64>> ],
       \* 13: the same with latch 2
       [ main |-> <<169, 2, 141, 20, 64,                \* LDA #$02 ; STA $4014
                    169, 24, 141, 1, 32,                \* LDA #$18 ; STA $2001
                    169, 2, 141, 0, 192,                \* LDA #$02 ; STA $C000
                    141, 1, 192, 141, 1, 224,           \* STA $C001 ; STA $E001
                    88, 76, 22, 224>>,                  \* CLI ; JMP $E016
         nmi  |-> <<64>>,
         irq  |-> <<64>> ],
       \* 14: as 12, then IRQ disable, CLI, a wait of 850 cycles, IRQ enable
       [ main |-> <<169, 2, 141, 20, 64,                \* LDA #$02 ; STA $4014
                    169, 24, 141, 1, 32,                \* LDA #$18 ; STA $2001
                    169, 1, 141, 0, 192,                \* LDA #$01 ; STA $C000
                    141, 1, 192, 141, 1, 224,           \* STA $C001 ; STA $E001
                    141, 0, 224, 88,                    \* STA $E000 ; CLI
                    162, 170, 202, 208, 253,            \* LDX #170 ; DEX ; BNE -3
                    141, 1, 224, 76, 33, 224>>,         \* STA $E001 ; JMP $E021
         nmi  |-> <<64>>,
         irq  |-> <<64>> ],
       \* 15: an unofficial opcode of size 0, on which PC stays
       [ main |-> <<251, 0, 3, 76, 0, 224>>,            \* ISC $0300,Y ; JMP $E000
         nmi  |-> <<64>>,
         irq  |-> <<64>> ] >>

\* Byte at offset 'off' (0..8191) of the last 8 KiB PRG bank of image r.
ImageByte(r, off) ==
    IF off < Len(r.main) THEN r.main[off + 1]
    ELSE IF off >= 128 /\ off < 128 + Len(r.nmi) THEN r.nmi[off - 128 + 1]
    ELSE IF off >= 192 /\ off < 192 + Len(r.irq) THEN r.irq[off - 192 + 1]
    ELSE IF off = 8186 THEN 128      \* $FFFA/$FFFB: NMI vector $E080
    ELSE IF off = 8187 THEN 224
    ELSE IF off = 8188 THEN 0        \* $FFFC/$FFFD: reset vector $E000
    ELSE IF off = 8189 THEN 224
    ELSE IF off = 8190 THEN 192      \* $FFFE/$FFFF: IRQ vector $E0C0
    ELSE IF off = 8191 THEN 224
    ELSE 234

LastBankByte(rom, off) == ImageByte(Roms[rom], off)

\* cartridge->PRG[index]
PRG(c, index) ==
    IF index >= c.prg_size - 8192 /\ index < c.prg_size
    THEN LastBankByte(c.rom, index - (c.prg_size - 8192))
    ELSE 234

-----------------------------------------------------------------------------
(* Mapper 4 (MMC3): src/memory.cpp, src/NES.h.                             *)

Mapper4_prgBankOffset(c, index) ==
    LET i1 == IF index >= 128 THEN index - 256 ELSE index
        i2 == CRem(i1, c.prg_size \div 8192)
        offset == i2 * 8192
    IN  IF offset < 0 THEN offset + c.prg_size ELSE offset

Mapper4_chrBankOffset(c, index) ==
    LET i1 == IF index >= 128 THEN index - 256 ELSE index
        i2 == CRem(i1, c.chr_size \div 1024)
        offset == i2 * 1024
    IN  IF offset < 0 THEN offset + c.chr_size ELSE offset

Mapper4_updateOffsets(mp, c) ==
    LET r(k) == mp.regs[k + 1]
        P(x) == Mapper4_prgBankOffset(c, x)
        C(x) == Mapper4_chrBankOffset(c, x)
        lo(x) == x - (x % 2)        \* x & 0xFE
        hi(x) == x - (x % 2) + 1    \* x | 0x01
    IN  [mp EXCEPT
            !.prg_offsets =
                IF mp.prg_mode = 0
                THEN <<P(r(6)), P(r(7)), P(-2), P(-1)>>
                ELSE <<P(-2), P(r(7)), P(r(6)), P(-1)>>,
            !.chr_offsets =
                IF mp.chr_mode = 0
                THEN <<C(lo(r(0))), C(hi(r(0))), C(lo(r(1))), C(hi(r(1))),
                       C(r(2)), C(r(3)), C(r(4)), C(r(5))>>
                ELSE <<C(r(2)), C(r(3)), C(r(4)), C(r(5)),
                       C(lo(r(0))), C(hi(r(0))), C(lo(r(1))), C(hi(r(1)))>> ]

\* Mapper4::read, the value read (a mapper read changes no state).
Mapper4_read(m, address) ==
    IF address < 8192
    THEN Get(m.cartridge.CHR, m.mapper.chr_offsets[(address \div 1024) + 1] + (address % 1024))
    ELSE IF address >= 32768
    THEN PRG(m.cartridge, m.mapper.prg_offsets[((address - 32768) \div 8192) + 1]
                          + ((address - 32768) % 8192))
    ELSE IF address >= 24576
    THEN Get(m.cartridge.SRAM, address - 24576)
    ELSE 0

\* Mapper4::write
Mapper4_write(m, address, value) ==
    LET odd == (address % 2) = 1 IN
    IF address < 8192
    THEN [m EXCEPT !.cartridge.CHR =
            Put(@, m.mapper.chr_offsets[(address \div 1024) + 1] + (address % 1024), value)]
    ELSE IF address >= 32768
    THEN IF address <= 40959 /\ ~odd
         THEN [m EXCEPT !.mapper =
                 Mapper4_updateOffsets([@ EXCEPT !.prg_mode = Bit(value, 6),
                                                 !.chr_mode = Bit(value, 7),
                                                 !.reg = value % 8], m.cartridge)]
         ELSE IF address <= 40959 /\ odd
         THEN [m EXCEPT !.mapper =
                 Mapper4_updateOffsets([@ EXCEPT !.regs[m.mapper.reg + 1] = value], m.cartridge)]
         ELSE IF address <= 49151 /\ ~odd
         THEN [m EXCEPT !.cartridge.mirror =
                 IF value % 2 = 0 THEN MirrorVertical ELSE MirrorHorizontal]
         ELSE IF address <= 49151 /\ odd
         THEN m
         ELSE IF address <= 57343 /\ ~odd
         THEN [m EXCEPT !.mapper.reload = value]
         ELSE IF address <= 57343 /\ odd
         THEN [m EXCEPT !.mapper.counter = 0]
         ELSE IF ~odd
         THEN [m EXCEPT !.mapper.IRQ_enable = FALSE]
         ELSE [m EXCEPT !.mapper.IRQ_enable = TRUE]
    ELSE IF address >= 24576
    THEN [m EXCEPT !.cartridge.SRAM = Put(@, address - 24576, value)]
    ELSE m

-----------------------------------------------------------------------------
(* Mapper 1 (MMC1): src/memory.cpp, src/NES.h.                             *)

Mapper1_prgBankOffset(c, index) ==
    LET i1 == IF index >= 128 THEN index - 256 ELSE index
        i2 == CRem(i1, c.prg_size \div 16384)
        offset == i2 * 16384
    IN  IF offset < 0 THEN offset + c.prg_size ELSE offset

Mapper1_chrBankOffset(c, index) ==
    LET i1 == IF index >= 128 THEN index - 256 ELSE index
        i2 == CRem(i1, c.chr_size \div 4096)
        offset == i2 * 4096
    IN  IF offset < 0 THEN offset + c.chr_size ELSE offset

Mapper1_updateOffsets(mp, c) ==
    [mp EXCEPT
        !.prg_offsets =
            IF mp.prg_mode = 0 \/ mp.prg_mode = 1
            THEN <<Mapper1_prgBankOffset(c, mp.prg_bank - (mp.prg_bank % 2)),
                   Mapper1_prgBankOffset(c, mp.prg_bank - (mp.prg_bank % 2) + 1)>>
            ELSE IF mp.prg_mode = 2
            THEN <<0, Mapper1_prgBankOffset(c, mp.prg_bank)>>
            ELSE <<Mapper1_prgBankOffset(c, mp.prg_bank), Mapper1_prgBankOffset(c, -1)>>,
        !.chr_offsets =
            IF mp.chr_mode = 0
            THEN <<Mapper1_chrBankOffset(c, mp.chr_bank0 - (mp.chr_bank0 % 2)),
                   Mapper1_chrBankOffset(c, mp.chr_bank0 - (mp.chr_bank0 % 2) + 1)>>
            ELSE <<Mapper1_chrBankOffset(c, mp.chr_bank0),
                   Mapper1_chrBankOffset(c, mp.chr_bank1)>>]

\* Control ($8000-$9FFF): the mapper's fields and the cartridge's mirror mode.
Mapper1_writeCtrl(m, value) ==
    [m EXCEPT !.mapper.control = value,
              !.mapper.chr_mode = Bit(value, 4),
              !.mapper.prg_mode = (value \div 4) % 4,
              !.cartridge.mirror = CASE value % 4 = 0 -> MirrorSingle0
                                     [] value % 4 = 1 -> MirrorSingle1
                                     [] value % 4 = 2 -> MirrorVertical
                                     [] value % 4 = 3 -> MirrorHorizontal]

\* updateOffsets(cartridge) on the machine.
Mapper1_offsets(m) == [m EXCEPT !.mapper = Mapper1_updateOffsets(@, m.cartridge)]

\* Mapper1_loadRegister that stores all five bits into the PRG bank.
Mapper1_loadRegisterUnmasked(m, address, shift_reg) ==
    IF address <= 40959 THEN Mapper1_writeCtrl(m, shift_reg)
    ELSE IF address <= 49151 THEN [m EXCEPT !.mapper.chr_bank0 = shift_reg]
    ELSE IF address <= 57343 THEN [m EXCEPT !.mapper.chr_bank1 = shift_reg]
    ELSE [m EXCEPT !.mapper.prg_bank = shift_reg]

\* The register a completed load goes to, selected by the address.
Mapper1_loadRegister(m, address, shift_reg) ==
    IF address <= 40959 THEN Mapper1_writeCtrl(m, shift_reg)
    ELSE IF address <= 49151 THEN [m EXCEPT !.mapper.chr_bank0 = shift_reg]
    ELSE IF address <= 57343 THEN [m EXCEPT !.mapper.chr_bank1 = shift_reg]
    ELSE [m EXCEPT !.mapper.prg_bank = shift_reg % 16]

\* The write with bit 7 clear: 'complete' is bit 0 of the shift register
\* before the shift, m holds the shifted register.
Mapper1_shifted(m, address, complete) ==
    IF complete
    THEN [Mapper1_offsets(Mapper1_loadRegister(m, address, m.mapper.shift_reg))
             EXCEPT !.mapper.shift_reg = 16]
    ELSE m

\* Mapper1::write with a reset that leaves the shift register as it is.
Mapper1_writeNoReset(m, address, value) ==
    IF address < 8192
    THEN [m EXCEPT !.cartridge.CHR =
            Put(@, m.mapper.chr_offsets[(address \div 4096) + 1] + (address % 4096), value)]
    ELSE IF address >= 32768
    THEN IF Bit(value, 7) = 1
         THEN Mapper1_offsets(Mapper1_writeCtrl(m, BitOr(m.mapper.control, 12)))
         ELSE Mapper1_shifted(
                 [m EXCEPT !.mapper.shift_reg = (@ \div 2) + (value % 2) * 16],
                 address, (m.mapper.shift_reg % 2) = 1)
    ELSE IF address >= 24576
    THEN [m EXCEPT !.cartridge.SRAM = Put(@, address - 24576, value)]
    ELSE m

Mapper1_write(m, address, value) ==
    IF address < 8192
    THEN [m EXCEPT !.cartridge.CHR =
            Put(@, m.mapper.chr_offsets[(address \div 4096) + 1] + (address % 4096), value)]
    ELSE IF address >= 32768
    THEN IF Bit(value, 7) = 1
         THEN Mapper1_offsets(Mapper1_writeCtrl([m EXCEPT !.mapper.shift_reg = 16],
                                                BitOr(m.mapper.control, 12)))
         ELSE Mapper1_shifted(
                 [m EXCEPT !.mapper.shift_reg = (@ \div 2) + (value % 2) * 16],
                 address, (m.mapper.shift_reg % 2) = 1)
    ELSE IF address >= 24576
    THEN [m EXCEPT !.cartridge.SRAM = Put(@, address - 24576, value)]
    ELSE m

Mapper1_read(m, address) ==
    IF address < 8192
    THEN Get(m.cartridge.CHR, m.mapper.chr_offsets[(address \div 4096) + 1] + (address % 4096))
    ELSE IF address >= 32768
    THEN PRG(m.cartridge, m.mapper.prg_offsets[((address - 32768) \div 16384) + 1]
                          + ((address - 32768) % 16384))
    ELSE IF address >= 24576
    THEN Get(m.cartridge.SRAM, address - 24576)
    ELSE 0

-----------------------------------------------------------------------------
(* Mappers 2 (also used for mapper 0), 3 and 7: src/NES.h.                 *)

Mapper2_read(m, address) ==
    IF address < 8192 THEN Get(m.cartridge.CHR, address)
    ELSE IF address >= 49152
    THEN PRG(m.cartridge, m.mapper.prg_bank2 * 16384 + (address - 49152))
    ELSE IF address >= 32768
    THEN PRG(m.cartridge, m.mapper.prg_bank1 * 16384 + (address - 32768))
    ELSE IF address >= 24576 THEN Get(m.cartridge.SRAM, address - 24576)
    ELSE 0

Mapper2_write(m, address, value) ==
    IF address < 8192 THEN [m EXCEPT !.cartridge.CHR = Put(@, address, value)]
    ELSE IF address >= 32768
    THEN [m EXCEPT !.mapper.prg_bank1 = value % m.mapper.prg_banks]
    ELSE IF address >= 24576
    THEN [m EXCEPT !.cartridge.SRAM = Put(@, address - 24576, value)]
    ELSE m

Mapper3_read(m, address) ==
    IF address < 8192 THEN Get(m.cartridge.CHR, m.mapper.chr_bank * 8192 + address)
    ELSE IF address >= 49152
    THEN PRG(m.cartridge, m.mapper.prg_bank2 * 16384 + (address - 49152))
    ELSE IF address >= 32768
    THEN PRG(m.cartridge, m.mapper.prg_bank1 * 16384 + (address - 32768))
    ELSE IF address >= 24576 THEN Get(m.cartridge.SRAM, address - 24576)
    ELSE 0

\* Mapper3::write onto an SRAM of 4096 bytes.
Mapper3_writeSram4K(m, address, value) ==
    IF address < 8192
    THEN [m EXCEPT !.cartridge.CHR = Put(@, m.mapper.chr_bank * 8192 + address, value)]
    ELSE IF address >= 32768 THEN [m EXCEPT !.mapper.chr_bank = value % 4]
    ELSE IF address >= 24576
    THEN [m EXCEPT !.cartridge.SRAM = Put(@, (address - 24576) % 4096, value)]
    ELSE m

Mapper3_write(m, address, value) ==
    IF address < 8192
    THEN [m EXCEPT !.cartridge.CHR = Put(@, m.mapper.chr_bank * 8192 + address, value)]
    ELSE IF address >= 32768 THEN [m EXCEPT !.mapper.chr_bank = value % 4]
    ELSE IF address >= 24576
    THEN [m EXCEPT !.cartridge.SRAM = Put(@, address - 24576, value)]
    ELSE m

Mapper7_read(m, address) ==
    IF address < 8192 THEN Get(m.cartridge.CHR, address)
    ELSE IF address >= 32768
    THEN PRG(m.cartridge, m.mapper.prg_bank * 32768 + (address - 32768))
    ELSE IF address >= 24576 THEN Get(m.cartridge.SRAM, address - 24576)
    ELSE 0

Mapper7_write(m, address, value) ==
    IF address < 8192 THEN [m EXCEPT !.cartridge.CHR = Put(@, address, value)]
    ELSE IF address >= 32768
    THEN [m EXCEPT !.mapper.prg_bank = value % 8,
                   !.cartridge.mirror = IF Bit(value, 4) = 0 THEN MirrorSingle0
                                        ELSE MirrorSingle1]
    ELSE IF address >= 24576
    THEN [m EXCEPT !.cartridge.SRAM = Put(@, address - 24576, value)]
    ELSE m

\* nes->mapper->read / write: virtual dispatch on the mapper NES::NES chose
\* for the cartridge's mapper number.
mapper_read(m, address) ==
    CASE m.cartridge.mapper = 4 -> Mapper4_read(m, address)
      [] m.cartridge.mapper = 1 -> Mapper1_read(m, address)
      [] m.cartridge.mapper = 0 \/ m.cartridge.mapper = 2 -> Mapper2_read(m, address)
      [] m.cartridge.mapper = 3 -> Mapper3_read(m, address)
      [] m.cartridge.mapper = 7 -> Mapper7_read(m, address)

mapper_write(m, address, value) ==
    CASE m.cartridge.mapper = 4 -> Mapper4_write(m, address, value)
      [] m.cartridge.mapper = 1 -> Mapper1_write(m, address, value)
      [] m.cartridge.mapper = 0 \/ m.cartridge.mapper = 2 -> Mapper2_write(m, address, value)
      [] m.cartridge.mapper = 3 -> Mapper3_write(m, address, value)
      [] m.cartridge.mapper = 7 -> Mapper7_write(m, address, value)

-----------------------------------------------------------------------------
(* PPU bus and registers: src/memory.cpp, src/NES.cpp.                     *)

mirrorAddress(mode, address) ==
    LET a == U16(address - 8192) % 4096
        table == a \div 1024
        offset == a % 1024
    IN  8192 + mirror_tbl[mode + 1][table + 1] * 1024 + offset

readPalette(ppu, address) ==
    LET a == IF address >= 16 /\ (address % 4) = 0 THEN address - 16 ELSE address
    IN  Get(ppu.palette_tbl, a)

readPPU(m, address) ==
    LET a == address % 16384 IN
    IF a < 8192 THEN mapper_read(m, a)
    ELSE IF a < 16128
    THEN Get(m.ppu.name_tbl, mirrorAddress(m.cartridge.mirror, a) % 2048)
    ELSE readPalette(m.ppu, a % 32)

\* writePPU that stores a palette byte at address & 31 as it is.
writePPUUnmirrored(m, address, value) ==
    LET a == address % 16384 IN
    IF a < 8192 THEN mapper_write(m, a, value)
    ELSE IF a < 16128
    THEN [m EXCEPT !.ppu.name_tbl =
            Put(@, mirrorAddress(m.cartridge.mirror, a) % 2048, value)]
    ELSE LET p == a % 32
             q == p
         IN  [m EXCEPT !.ppu.palette_tbl = Put(@, q, value)]

writePPU(m, address, value) ==
    LET a == address % 16384 IN
    IF a < 8192 THEN mapper_write(m, a, value)
    ELSE IF a < 16128
    THEN [m EXCEPT !.ppu.name_tbl =
            Put(@, mirrorAddress(m.cartridge.mirror, a) % 2048, value)]
    ELSE LET p == a % 32
             q == IF p >= 16 /\ (p % 4) = 0 THEN p - 16 ELSE p
         IN  [m EXCEPT !.ppu.palette_tbl = Put(@, q, value)]

\* PPUnmiShift with a delay of 16 dots.
PPUnmiShiftLate(ppu) ==
    LET nmi == ppu.nmi_out /\ ppu.nmi_occurred IN
    [ppu EXCEPT !.nmi_delay = IF nmi /\ ~ppu.nmi_last THEN 16 ELSE @,
                !.nmi_last = nmi]

PPUnmiShift(ppu) ==
    LET nmi == ppu.nmi_out /\ ppu.nmi_occurred IN
    [ppu EXCEPT !.nmi_delay = IF nmi /\ ~ppu.nmi_last THEN 15 ELSE @,
                !.nmi_last = nmi]

\* $2000: PPUCTRL
writePPUCtrl(ppu, value) ==
    LET p1 == [ppu EXCEPT !.flag_name_tbl = value % 4,
                          !.flag_increment = Bit(value, 2),
                          !.flag_sprite_tbl = Bit(value, 3),
                          !.flag_background_tbl = Bit(value, 4),
                          !.flag_sprite_size = Bit(value, 5),
                          !.flag_rw = Bit(value, 6),
                          !.nmi_out = (Bit(value, 7) = 1)]
        p2 == PPUnmiShift(p1)
    IN  [p2 EXCEPT !.t = BitOr(BitAnd(@, 62463), (value % 4) * 1024)]

\* $2001: PPUMASK
writePPUMask(ppu, value) ==
    [ppu EXCEPT !.flag_gray = Bit(value, 0),
                !.flag_show_left_background = Bit(value, 1),
                !.flag_show_left_sprites = Bit(value, 2),
                !.flag_show_background = Bit(value, 3),
                !.flag_show_sprites = Bit(value, 4),
                !.flag_red_tint = Bit(value, 5),
                !.flag_green_tint = Bit(value, 6),
                !.flag_blue_tint = Bit(value, 7)]

\* A read returns the pair of the byte read and the machine after the read.
Rd(v, m) == [val |-> v, nes |-> m]

\* $2007: 'value' is the byte readPPU returned for ppu.v.
readPPUData(m, value) ==
    LET ppu == m.ppu
        buffered == (ppu.v % 16384) < 16128
        inc == IF ppu.flag_increment = 0 THEN 1 ELSE 32
    IN  Rd(IF buffered THEN ppu.buffered_data ELSE value,
           [m EXCEPT !.ppu.buffered_data =
                         IF buffered THEN value ELSE readPPU(m, U16(ppu.v - 4096)),
                     !.ppu.v = U16(@ + inc)])

\* readPPURegister with a PPUSTATUS read that leaves the write toggle alone.
readPPURegisterKeepW(m, address) ==
    LET ppu == m.ppu IN
    IF address = 8194
    THEN LET status == (ppu.reg % 32) + ppu.flag_sprite_overflow * 32
                       + ppu.flag_sprite_zero_hit * 64
                       + (IF ppu.nmi_occurred THEN 128 ELSE 0)
         IN  Rd(U8(status),
                [m EXCEPT !.ppu = PPUnmiShift([@ EXCEPT !.nmi_occurred = FALSE])])
    ELSE IF address = 8196
    THEN Rd(Get(ppu.oam_tbl, ppu.oam_addr), m)
    ELSE IF address = 8199
    THEN readPPUData(m, readPPU(m, ppu.v))
    ELSE Rd(0, m)

readPPURegister(m, address) ==
    LET ppu == m.ppu IN
    IF address = 8194
    THEN LET status == (ppu.reg % 32) + ppu.flag_sprite_overflow * 32
                       + ppu.flag_sprite_zero_hit * 64
                       + (IF ppu.nmi_occurred THEN 128 ELSE 0)
         IN  Rd(U8(status),
                [m EXCEPT !.ppu = [PPUnmiShift([@ EXCEPT !.nmi_occurred = FALSE])
                                      EXCEPT !.w = 0]])
    ELSE IF address = 8196
    THEN Rd(Get(ppu.oam_tbl, ppu.oam_addr), m)
    ELSE IF address = 8199
    THEN readPPUData(m, readPPU(m, ppu.v))
    ELSE Rd(0, m)

readController(c) ==
    LET value == IF c.index < 8 /\ Bit(c.buttons, c.index) = 1 THEN 1 ELSE 0
        idx == U8(c.index + 1)
    IN  [val |-> value,
         c |-> [c EXCEPT !.index = IF (c.strobe % 2) = 1 THEN 0 ELSE idx]]

writeController(c, value) ==
    [c EXCEPT !.strobe = value, !.index = IF (value % 2) = 1 THEN 0 ELSE @]

readByte(m, address) ==
    IF address < 8192 THEN Rd(Get(m.RAM, address % 2048), m)
    ELSE IF address < 16384 THEN readPPURegister(m, 8192 + (address % 8))
    ELSE IF address = 16404 THEN readPPURegister(m, address)
    ELSE IF address = 16405 THEN Rd(0, m)
    ELSE IF address = 16406
    THEN LET r == readController(m.controller1)
         IN  Rd(r.val, [m EXCEPT !.controller1 = r.c])
    ELSE IF address = 16407
    THEN LET r == readController(m.controller2)
         IN  Rd(r.val, [m EXCEPT !.controller2 = r.c])
    ELSE IF address < 24576 THEN Rd(0, m)
    ELSE Rd(mapper_read(m, address), m)

\* hi << 8 | lo of two successive reads.
Word(lo, hi) == Rd(hi.val * 256 + lo.val, hi.nes)

\* The high byte of a 16-bit read, fetched from 'address' after the low
\* byte 'lo' was read.
readHigh(lo, address) == Word(lo, readByte(lo.nes, address))

read16(m, address) == readHigh(readByte(m, address), U16(address + 1))

read16_ff_bugCarry(m, address) ==
    readHigh(readByte(m, address), U16(address + 1))

\* The 6502 indirect-jump bug: the pointer's high byte is fetched without
\* carrying into the page number.
read16_ff_bug(m, address) ==
    readHigh(readByte(m, address), (address - (address % 256)) + U8((address % 256) + 1))

-----------------------------------------------------------------------------
(* The APU's pulse, triangle and noise channels: src/NES.h (structures),   *)
(* src/NES.cpp (envelope, sweep, length and timer units), src/memory.cpp   *)
(* (register writes).                                                      *)

length_tbl ==
    <<10, 254, 20, 2, 40, 4, 80, 6, 160, 8, 60, 10, 14, 12, 26, 14,
      12, 16, 24, 18, 48, 20, 96, 22, 192, 24, 72, 26, 16, 28, 32, 30>>

noise_tbl == <<4, 8, 16, 32, 64, 96, 128, 160, 202, 254, 380, 508, 762, 1016, 2034, 4068>>

\* Pulse(), with the channel number NES::NES assigns.
Pulse_new(channel) ==
    [enabled |-> FALSE, channel |-> channel, length_enabled |-> FALSE, length_val |-> 0,
     timer_period |-> 0, timer_val |-> 0, duty_mode |-> 0, duty_val |-> 0,
     sweep_reload |-> FALSE, sweep_enabled |-> FALSE, sweep_negate |-> FALSE,
     sweep_shift |-> 0, sweep_period |-> 0, sweep_val |-> 0,
     envelope_enabled |-> FALSE, envelope_loop |-> FALSE, envelope_start |-> FALSE,
     envelope_period |-> 0, envelope_val |-> 0, envelope_vol |-> 0, const_vol |-> 0]

Triangle_new ==
    [enabled |-> FALSE, length_enabled |-> FALSE, length_val |-> 0,
     timer_period |-> 0, timer_val |-> 0, duty_val |-> 0,
     counter_period |-> 0, counter_val |-> 0, counter_reload |-> FALSE]

\* Noise() and apu->noise.shift_reg = 1.
Noise_new ==
    [enabled |-> FALSE, mode |-> FALSE, shift_reg |-> 1, length_enabled |-> FALSE,
     length_val |-> 0, timer_period |-> 0, timer_val |-> 0,
     envelope_enabled |-> FALSE, envelope_loop |-> FALSE, envelope_start |-> FALSE,
     envelope_period |-> 0, envelope_val |-> 0, envelope_vol |-> 0, const_vol |-> 0]

\* $4000/$4004 and, for the noise channel, $400C: the fields are the same.
pulseWriteControl(p, value) ==
    [p EXCEPT !.duty_mode = (value \div 64) % 4,
              !.length_enabled = (Bit(value, 5) = 0),
              !.envelope_loop = (Bit(value, 5) = 1),
              !.envelope_enabled = (Bit(value, 4) = 0),
              !.envelope_period = value % 16,
              !.const_vol = value % 16,
              !.envelope_start = TRUE]

noiseWriteControl(n, value) ==
    [n EXCEPT !.length_enabled = (Bit(value, 5) = 0),
              !.envelope_loop = (Bit(value, 5) = 1),
              !.envelope_enabled = (Bit(value, 4) = 0),
              !.envelope_period = value % 16,
              !.const_vol = value % 16,
              !.envelope_start = TRUE]

pulseWriteSweep(p, value) ==
    [p EXCEPT !.sweep_enabled = (Bit(value, 7) = 1),
              !.sweep_period = ((value \div 16) % 8) + 1,
              !.sweep_negate = (Bit(value, 3) = 1),
              !.sweep_shift = value % 8,
              !.sweep_reload = TRUE]

pulseWriteTimerHigh(p, value) ==
    [p EXCEPT !.length_val = length_tbl[(value \div 8) + 1],
              !.timer_period = (@ % 256) + (value % 8) * 256,
              !.envelope_start = TRUE,
              !.duty_val = 0]

\* The envelope unit of a pulse or of the noise channel.
pulseTickEnvelope(p) ==
    IF p.envelope_start
    THEN [p EXCEPT !.envelope_vol = 15, !.envelope_val = p.envelope_period,
                   !.envelope_start = FALSE]
    ELSE IF p.envelope_val > 0
    THEN [p EXCEPT !.envelope_val = @ - 1]
    ELSE [p EXCEPT !.envelope_vol = IF @ > 0 THEN @ - 1
                                    ELSE IF p.envelope_loop THEN 15 ELSE @,
                   !.envelope_val = p.envelope_period]

\* The triangle's linear counter.
triangleTickCounter(t) ==
    [t EXCEPT !.counter_val = IF t.counter_reload THEN t.counter_period
                              ELSE IF @ > 0 THEN @ - 1 ELSE @,
              !.counter_reload = IF t.length_enabled THEN FALSE ELSE @]

tickEnvelope(apu) ==
    [apu EXCEPT !.pulse1 = pulseTickEnvelope(@),
                !.pulse2 = pulseTickEnvelope(@),
                !.triangle = triangleTickCounter(@),
                !.noise = pulseTickEnvelope(@)]

\* One channel's part of tickLength.
lengthTicked(ch) ==
    IF ch.length_enabled /\ ch.length_val > 0
    THEN [ch EXCEPT !.length_val = @ - 1]
    ELSE ch

tickLength(apu) ==
    [apu EXCEPT !.pulse1 = lengthTicked(@),
                !.pulse2 = lengthTicked(@),
                !.triangle = lengthTicked(@),
                !.noise = lengthTicked(@)]

tickPulseTimer(p) ==
    IF p.timer_val = 0
    THEN [p EXCEPT !.timer_val = p.timer_period, !.duty_val = (@ + 1) % 8]
    ELSE [p EXCEPT !.timer_val = @ - 1]

\* delta = timer_period >> sweep_shift, on the 16-bit period.
sweep(p) ==
    IF p.sweep_negate
    THEN [p EXCEPT !.timer_period =
             U16(@ - (@ \div (2 ^ p.sweep_shift)) - (IF p.channel = 1 THEN 1 ELSE 0))]
    ELSE [p EXCEPT !.timer_period = U16(@ + (@ \div (2 ^ p.sweep_shift)))]

pulseTickSweep(p) ==
    IF p.sweep_reload
    THEN [(IF p.sweep_enabled /\ p.sweep_val = 0 THEN sweep(p) ELSE p)
            EXCEPT !.sweep_val = p.sweep_period, !.sweep_reload = FALSE]
    ELSE IF p.sweep_val > 0
    THEN [p EXCEPT !.sweep_val = @ - 1]
    ELSE [(IF p.sweep_enabled THEN sweep(p) ELSE p) EXCEPT !.sweep_val = p.sweep_period]

tickSweep(apu) ==
    [apu EXCEPT !.pulse1 = pulseTickSweep(@), !.pulse2 = pulseTickSweep(@)]

\* The clock of the shift register with the feedback entering at bit 13.
noiseClockShort(n) ==
    LET tap == IF n.mode THEN 6 ELSE 1
        b1 == Bit(n.shift_reg, 0)
        b2 == Bit(n.shift_reg, tap)
    IN  [n EXCEPT !.shift_reg = BitOr(n.shift_reg \div 2, BitXor(b1, b2) * 8192)]

\* b1 = bit 0, b2 = bit 1 or 6, shift right, b1 ^ b2 enters at bit 14.
noiseClock(n) ==
    LET tap == IF n.mode THEN 6 ELSE 1
        b1 == Bit(n.shift_reg, 0)
        b2 == Bit(n.shift_reg, tap)
    IN  [n EXCEPT !.shift_reg = BitOr(n.shift_reg \div 2, BitXor(b1, b2) * 16384)]

\* The noise timer of an even APU cycle.
tickNoiseTimer(n) ==
    IF n.timer_val = 0
    THEN noiseClock([n EXCEPT !.timer_val = n.timer_period])
    ELSE [n EXCEPT !.timer_val = @ - 1]

\* $400D/$400E
writeNoisePeriod(n, value) ==
    [n EXCEPT !.mode = (Bit(value, 7) = 1), !.timer_period = noise_tbl[(value % 16) + 1]]

\* The triangle timer, ticked on every APU cycle.
tickTriangleTimer(t) ==
    IF t.timer_val = 0
    THEN [t EXCEPT !.timer_val = t.timer_period,
                   !.duty_val = IF t.length_val > 0 /\ t.counter_val > 0
                                THEN (@ + 1) % 32 ELSE @]
    ELSE [t EXCEPT !.timer_val = @ - 1]

-----------------------------------------------------------------------------
(* CPU-bus writes: src/memory.cpp, src/NES.cpp.                            *)

dmcRestart(d) == [d EXCEPT !.cur_addr = d.samp_addr, !.cur_len = d.samp_len]

\* $4015: the channel enables; a disabled channel's length counter is
\* cleared, the DMC restarts its sample when it is enabled with none left.
writeEnables(apu, value) ==
    [apu EXCEPT
        !.pulse1 = [@ EXCEPT !.enabled = (Bit(value, 0) = 1),
                             !.length_val = IF Bit(value, 0) = 1 THEN @ ELSE 0],
        !.pulse2 = [@ EXCEPT !.enabled = (Bit(value, 1) = 1),
                             !.length_val = IF Bit(value, 1) = 1 THEN @ ELSE 0],
        !.triangle = [@ EXCEPT !.enabled = (Bit(value, 2) = 1),
                               !.length_val = IF Bit(value, 2) = 1 THEN @ ELSE 0],
        !.noise = [@ EXCEPT !.enabled = (Bit(value, 3) = 1),
                            !.length_val = IF Bit(value, 3) = 1 THEN @ ELSE 0],
        !.dmc = IF Bit(value, 4) = 0 THEN [@ EXCEPT !.enabled = FALSE, !.cur_len = 0]
                ELSE IF @.cur_len = 0 THEN dmcRestart([@ EXCEPT !.enabled = TRUE])
                ELSE [@ EXCEPT !.enabled = TRUE]]

\* $4017: the sequence length and the frame IRQ enable; the 5-step sequence
\* clocks the envelope, sweep and length units at once.
writeFrameCounter(apu, value) ==
    IF Bit(value, 7) = 1
    THEN tickLength(tickSweep(tickEnvelope(
            [apu EXCEPT !.frame_period = 5, !.frame_IRQ = (Bit(value, 6) = 0)])))
    ELSE [apu EXCEPT !.frame_period = 4, !.frame_IRQ = (Bit(value, 6) = 0)]

\* The switch on the address; $4009 shares the case of $4010 and $400D that
\* of $400E.
writeRegisterAPU(apu, address, value) ==
    CASE address = 16384 -> [apu EXCEPT !.pulse1 = pulseWriteControl(@, value)]
      [] address = 16385 -> [apu EXCEPT !.pulse1 = pulseWriteSweep(@, value)]
      [] address = 16386 ->
            [apu EXCEPT !.pulse1.timer_period = (@ \div 256) * 256 + value]
      [] address = 16387 -> [apu EXCEPT !.pulse1 = pulseWriteTimerHigh(@, value)]
      [] address = 16388 -> [apu EXCEPT !.pulse2 = pulseWriteControl(@, value)]
      [] address = 16389 -> [apu EXCEPT !.pulse2 = pulseWriteSweep(@, value)]
      [] address = 16390 ->
            [apu EXCEPT !.pulse2.timer_period = (@ \div 256) * 256 + value]
      [] address = 16391 -> [apu EXCEPT !.pulse2 = pulseWriteTimerHigh(@, value)]
      [] address = 16392 ->
            [apu EXCEPT !.triangle.length_enabled = (Bit(value, 7) = 0),
                        !.triangle.counter_period = value % 128]
      [] address = 16393 \/ address = 16400 ->
            [apu EXCEPT !.dmc.irq = (Bit(value, 7) = 1),
                        !.dmc.loop = (Bit(value, 6) = 1),
                        !.dmc.tick_period = dmc_tbl[(value % 16) + 1]]
      [] address = 16401 -> [apu EXCEPT !.dmc.value = value % 128]
      [] address = 16402 -> [apu EXCEPT !.dmc.samp_addr = 49152 + value * 64]
      [] address = 16403 -> [apu EXCEPT !.dmc.samp_len = value * 16 + 1]
      [] address = 16394 ->
            [apu EXCEPT !.triangle.timer_period = (@ \div 256) * 256 + value]
      [] address = 16395 ->
            [apu EXCEPT !.triangle =
                [@ EXCEPT !.length_val = length_tbl[(value \div 8) + 1],
                          !.timer_period = (@ % 256) + (value % 8) * 256,
                          !.timer_val = (apu.triangle.timer_period % 256) + (value % 8) * 256,
                          !.counter_reload = TRUE]]
      [] address = 16396 -> [apu EXCEPT !.noise = noiseWriteControl(@, value)]
      [] address = 16397 \/ address = 16398 ->
            [apu EXCEPT !.noise = writeNoisePeriod(@, value)]
      [] address = 16399 ->
            [apu EXCEPT !.noise.length_val = length_tbl[(value \div 8) + 1],
                        !.noise.envelope_start = TRUE]
      [] address = 16405 -> writeEnables(apu, value)
      [] address = 16407 -> writeFrameCounter(apu, value)
      [] OTHER -> apu

\* oam_tbl[oam_addr++] = the byte read.
OamDmaStore(r) ==
    [r.nes EXCEPT !.ppu.oam_tbl = Put(@, r.nes.ppu.oam_addr, r.val),
                  !.ppu.oam_addr = U8(@ + 1)]

\* The copy loop of the $4014 write: passes i = 0 .. n-1 from 'address' on.
\* The passes are split in halves, and the first half is evaluated (by the
\* test on oam_addr, which always holds) before the second half starts.
RECURSIVE OamDmaCopy(_, _, _)
OamDmaSecondHalf(m, m1, address, h, n) ==
    IF m1.ppu.oam_addr = U8(m.ppu.oam_addr + h)
    THEN OamDmaCopy(m1, U16(address + h), n - h)
    ELSE m1

OamDmaCopy(m, address, n) ==
    IF n = 0 THEN m
    ELSE IF n = 1 THEN OamDmaStore(readByte(m, address))
    ELSE OamDmaSecondHalf(m, OamDmaCopy(m, address, n \div 2), address, n \div 2, n)

\* OamDmaStall without the extra cycle.
OamDmaStallFlat(m) == [m EXCEPT !.cpu.stall = @ + 513]

\* cpu->stall += 513, and one more on an odd CPU cycle.
OamDmaStall(m) == [m EXCEPT !.cpu.stall = @ + 513 + (m.cpu.cycles % 2)]

\* writeRegisterPPU with a first PPUADDR write that keeps seven bits.
writeRegisterPPUWideAddr(m, address, value) ==
    LET m0 == [m EXCEPT !.ppu.reg = value]
        ppu == m0.ppu
        inc == IF ppu.flag_increment = 0 THEN 1 ELSE 32
    IN  IF address = 8192 THEN [m0 EXCEPT !.ppu = writePPUCtrl(ppu, value)]
        ELSE IF address = 8193 THEN [m0 EXCEPT !.ppu = writePPUMask(ppu, value)]
        ELSE IF address = 8195 THEN [m0 EXCEPT !.ppu.oam_addr = value]
        ELSE IF address = 8196
        THEN [m0 EXCEPT !.ppu.oam_tbl = Put(@, ppu.oam_addr, value),
                        !.ppu.oam_addr = U8(@ + 1)]
        ELSE IF address = 8197
        THEN IF ppu.w = 0
             THEN [m0 EXCEPT !.ppu.t = BitOr(BitAnd(@, 65504), value \div 8),
                             !.ppu.x = value % 8,
                             !.ppu.w = 1]
             ELSE [m0 EXCEPT !.ppu.t =
                                 BitOr(BitAnd(BitOr(BitAnd(@, 36863), (value % 8) * 4096), 64543),
                                       (value - (value % 8)) * 4),
                             !.ppu.w = 0]
        ELSE IF address = 8198
        THEN IF ppu.w = 0
             THEN [m0 EXCEPT !.ppu.t = BitOr(BitAnd(@, 33023), (value % 128) * 256),
                             !.ppu.w = 1]
             ELSE LET t2 == BitOr(BitAnd(ppu.t, 65280), value)
                  IN  [m0 EXCEPT !.ppu.t = t2, !.ppu.v = t2, !.ppu.w = 0]
        ELSE IF address = 8199
        THEN [writePPU(m0, ppu.v, value) EXCEPT !.ppu.v = U16(@ + inc)]
        ELSE IF address = 16404
        THEN OamDmaStall(OamDmaCopy(m0, value * 256, 256))
        ELSE m0

writeRegisterPPU(m, address, value) ==
    LET m0 == [m EXCEPT !.ppu.reg = value]
        ppu == m0.ppu
        inc == IF ppu.flag_increment = 0 THEN 1 ELSE 32
    IN  IF address = 8192 THEN [m0 EXCEPT !.ppu = writePPUCtrl(ppu, value)]
        ELSE IF address = 8193 THEN [m0 EXCEPT !.ppu = writePPUMask(ppu, value)]
        ELSE IF address = 8195 THEN [m0 EXCEPT !.ppu.oam_addr = value]
        ELSE IF address = 8196
        THEN [m0 EXCEPT !.ppu.oam_tbl = Put(@, ppu.oam_addr, value),
                        !.ppu.oam_addr = U8(@ + 1)]
        ELSE IF address = 8197
        THEN IF ppu.w = 0
             THEN [m0 EXCEPT !.ppu.t = BitOr(BitAnd(@, 65504), value \div 8),
                             !.ppu.x = value % 8,
                             !.ppu.w = 1]
             ELSE [m0 EXCEPT !.ppu.t =
                                 BitOr(BitAnd(BitOr(BitAnd(@, 36863), (value % 8) * 4096), 64543),
                                       (value - (value % 8)) * 4),
                             !.ppu.w = 0]
        ELSE IF address = 8198
        THEN IF ppu.w = 0
             THEN [m0 EXCEPT !.ppu.t = BitOr(BitAnd(@, 33023), (value % 64) * 256),
                             !.ppu.w = 1]
             ELSE LET t2 == BitOr(BitAnd(ppu.t, 65280), value)
                  IN  [m0 EXCEPT !.ppu.t = t2, !.ppu.v = t2, !.ppu.w = 0]
        ELSE IF address = 8199
        THEN [writePPU(m0, ppu.v, value) EXCEPT !.ppu.v = U16(@ + inc)]
        ELSE IF address = 16404
        THEN OamDmaStall(OamDmaCopy(m0, value * 256, 256))
        ELSE m0

\* writeByte that indexes RAM with the address as it is.
writeByteUnmirrored(m, address, value) ==
    IF address < 8192 THEN [m EXCEPT !.RAM = Put(@, address, value)]
    ELSE IF address < 16384 THEN writeRegisterPPU(m, 8192 + (address % 8), value)
    ELSE IF address < 16404 THEN [m EXCEPT !.apu = writeRegisterAPU(@, address, value)]
    ELSE IF address = 16404 THEN writeRegisterPPU(m, address, value)
    ELSE IF address = 16405 THEN [m EXCEPT !.apu = writeRegisterAPU(@, address, value)]
    ELSE IF address = 16406
    THEN [m EXCEPT !.controller1 = writeController(@, value),
                   !.controller2 = writeController(@, value)]
    ELSE IF address = 16407 THEN [m EXCEPT !.apu = writeRegisterAPU(@, address, value)]
    ELSE IF address < 24576 THEN m
    ELSE mapper_write(m, address, value)

writeByte(m, address, value) ==
    IF address < 8192 THEN [m EXCEPT !.RAM = Put(@, address % 2048, value)]
    ELSE IF address < 16384 THEN writeRegisterPPU(m, 8192 + (address % 8), value)
    ELSE IF address < 16404 THEN [m EXCEPT !.apu = writeRegisterAPU(@, address, value)]
    ELSE IF address = 16404 THEN writeRegisterPPU(m, address, value)
    ELSE IF address = 16405 THEN [m EXCEPT !.apu = writeRegisterAPU(@, address, value)]
    ELSE IF address = 16406
    THEN [m EXCEPT !.controller1 = writeController(@, value),
                   !.controller2 = writeController(@, value)]
    ELSE IF address = 16407 THEN [m EXCEPT !.apu = writeRegisterAPU(@, address, value)]
    ELSE IF address < 24576 THEN m
    ELSE mapper_write(m, address, value)

-----------------------------------------------------------------------------
(* CPU: src/cpu.cpp.                                                       *)

\* flags = (flags & ~(1 << n)) | (value << n)
setFlag(m, n, value) ==
    [m EXCEPT !.cpu.flags = (@ - Bit(@, n) * (2 ^ n)) + (IF value THEN 2 ^ n ELSE 0)]

setZ(m, value) == setFlag(m, 1, value = 0)
setN(m, value) == setFlag(m, 7, Bit(value, 7) = 1)
setZN(m, value) == setN(setZ(m, value), value)
setC(m, value) == setFlag(m, 0, value)
setI(m, value) == setFlag(m, 2, value)
setD(m, value) == setFlag(m, 3, value)
setV(m, value) == setFlag(m, 6, value)

getC(cpu) == Bit(cpu.flags, 0)
getZ(cpu) == Bit(cpu.flags, 1)
getI(cpu) == Bit(cpu.flags, 2)
getV(cpu) == Bit(cpu.flags, 6)
getN(cpu) == Bit(cpu.flags, 7)

compare(m, a, b) == setC(setZN(m, U8(a - b)), a >= b)

push(m, value) ==
    [writeByte(m, 256 + m.cpu.SP, value) EXCEPT !.cpu.SP = U8(@ - 1)]

pop(m) ==
    LET m1 == [m EXCEPT !.cpu.SP = U8(@ + 1)]
    IN  readByte(m1, 256 + m1.cpu.SP)

push16(m, value) == push(push(m, value \div 256), value % 256)

pop16(m) == Word(pop(m), pop(pop(m).nes))

pagesDiffer(a, b) == (a \div 256) # (b \div 256)

\* branchDelay without the cycle for a branch to a new page.
branchDelayNoPage(m, address, PC) == [m EXCEPT !.cpu.cycles = @ + 1]

branchDelay(m, address, PC) ==
    [m EXCEPT !.cpu.cycles = @ + 1 + (IF pagesDiffer(PC, address) THEN 1 ELSE 0)]

\* The body shared by bpl, bmi, bvc, bvs, bcc, bcs, bne and beq.
branch(m, address, taken) ==
    IF taken
    THEN branchDelay([m EXCEPT !.cpu.PC = address], address, m.cpu.PC)
    ELSE m

\* reg = value; setZN(reg)   (lda, ldx, ldy, pla, tax, tay, txa, tya, tsx,
\* inx, iny, dex, dey, and the accumulator results of and, ora, eor)
setReg(m, reg, value) == setZN([m EXCEPT !.cpu[reg] = value], value)

\* adc with r the operand read: a + b + c.
adcSum(m0, r) ==
    LET a == m0.cpu.A
        b == r.val
        c == getC(m0.cpu)
        res == U8(a + b + c)
    IN  setV(setC(setReg(r.nes, "A", res), a + b + c > 255),
             Bit(BitXor(a, b), 7) = 0 /\ Bit(BitXor(a, res), 7) # 0)

adc(m, address) == adcSum(m, readByte(m, address))

sbcDifferenceUnsigned(m0, r) ==
    LET a == m0.cpu.A
        b == r.val
        c == getC(m0.cpu)
        res == U8(a - b - (1 - c))
    IN  setV(setC(setReg(r.nes, "A", res), a - b - (1 - c) >= 0),
             Bit(BitXor(a, b), 7) = 0 /\ Bit(BitXor(a, res), 7) # 0)

\* sbc with r the operand read: a - b - (1 - c).
sbcDifference(m0, r) ==
    LET a == m0.cpu.A
        b == r.val
        c == getC(m0.cpu)
        res == U8(a - b - (1 - c))
    IN  setV(setC(setReg(r.nes, "A", res), a - b - (1 - c) >= 0),
             Bit(BitXor(a, b), 7) # 0 /\ Bit(BitXor(a, res), 7) # 0)

sbc(m, address) == sbcDifference(m, readByte(m, address))

\* and, ora, eor with r the operand read.
andWith(r) == setReg(r.nes, "A", BitAnd(r.nes.cpu.A, r.val))
oraWith(r) == setReg(r.nes, "A", BitOr(r.nes.cpu.A, r.val))
eorWith(r) == setReg(r.nes, "A", BitXor(r.nes.cpu.A, r.val))

and_instruction(m, address) == andWith(readByte(m, address))
ora(m, address) == oraWith(readByte(m, address))
eor(m, address) == eorWith(readByte(m, address))

bitTest(r) ==
    setN(setZ(setV(r.nes, Bit(r.val, 6) = 1), BitAnd(r.val, r.nes.cpu.A)), r.val)

bit(m, address) == bitTest(readByte(m, address))

\* compare(A/X/Y, readByte(address)) of cmp, cpx and cpy.
compareWith(r, reg) == compare(r.nes, r.nes.cpu[reg], r.val)

\* asl, lsr, rol and ror of the value v with carry c: the bit shifted out
\* and the new value.
shiftedOut(kind, v) == IF kind = "asl" \/ kind = "rol" THEN Bit(v, 7) ELSE v % 2

shifted(kind, v, c) ==
    CASE kind = "asl" -> U8(v * 2)
      [] kind = "lsr" -> v \div 2
      [] kind = "rol" -> U8(v * 2) + c
      [] kind = "ror" -> (v \div 2) + c * 128

\* A = shifted A; setZN(A).
shiftAccumulator(m, kind, c) ==
    setReg(setC(m, shiftedOut(kind, m.cpu.A) = 1), "A", shifted(kind, m.cpu.A, c))

\* writeByte(address, value); setZN(value).
store(m, address, value) == setZN(writeByte(m, address, value), value)

\* The memory form, with r the value read.
shiftMemory(r, address, kind, c) ==
    store(setC(r.nes, shiftedOut(kind, r.val) = 1), address, shifted(kind, r.val, c))

shift(m, address, mode, kind) ==
    IF mode = modeAccumulator
    THEN shiftAccumulator(m, kind, getC(m.cpu))
    ELSE shiftMemory(readByte(m, address), address, kind, getC(m.cpu))

asl(m, address, mode) == shift(m, address, mode, "asl")
lsr(m, address, mode) == shift(m, address, mode, "lsr")
rol(m, address, mode) == shift(m, address, mode, "rol")
ror(m, address, mode) == shift(m, address, mode, "ror")

\* dec and inc: value = readByte(address) -/+ 1; writeByte; setZN.
incdecWith(r, address, d) == store(r.nes, address, U8(r.val + d))
incdec(m, address, d) == incdecWith(readByte(m, address), address, d)

\* lda, ldx, ldy: reg = readByte(address); setZN(reg).  pla: A = pop().
loadWith(r, reg) == setReg(r.nes, reg, r.val)
load(m, address, reg) == loadWith(readByte(m, address), reg)

php(m) == push(m, BitOr(m.cpu.flags, 16))

\* plp that loads the popped byte as it is.
plpUnmasked(m) == [pop(m).nes EXCEPT !.cpu.flags = pop(m).val]

\* flags = (popped & 0xEF) | 0x20
loadFlags(r) == [r.nes EXCEPT !.cpu.flags = BitOr(BitAnd(r.val, 239), 32)]

plp(m) == loadFlags(pop(m))

\* PC = the word read or popped, plus d.
jumpTo(p, d) == [p.nes EXCEPT !.cpu.PC = U16(p.val + d)]

rti(m) == jumpTo(pop16(loadFlags(pop(m))), 0)

brk(m) == jumpTo(read16(setI(php(push16(m, m.cpu.PC)), TRUE), 65534), 0)

jsr(m, address) == [push16(m, U16(m.cpu.PC - 1)) EXCEPT !.cpu.PC = address]

rts(m) == jumpTo(pop16(m), 1)

pla(m) == loadWith(pop(m), "A")
-----------------------------------------------------------------------------
(* Decode and execute: src/cpu.cpp.                                        *)

\* instruction.dispatch(cpu, nes, address, mode): h names the handler.
dispatch(h, m, address, mode) ==
    LET cpu == m.cpu IN
    CASE h = "adc" -> adc(m, address)
      [] h = "and_instruction" -> and_instruction(m, address)
      [] h = "asl" -> asl(m, address, mode)
      [] h = "bcc" -> branch(m, address, getC(cpu) = 0)
      [] h = "bcs" -> branch(m, address, getC(cpu) = 1)
      [] h = "beq" -> branch(m, address, getZ(cpu) = 1)
      [] h = "bit" -> bit(m, address)
      [] h = "bmi" -> branch(m, address, getN(cpu) = 1)
      [] h = "bne" -> branch(m, address, getZ(cpu) = 0)
      [] h = "bpl" -> branch(m, address, getN(cpu) = 0)
      [] h = "brk" -> brk(m)
      [] h = "bvc" -> branch(m, address, getV(cpu) = 0)
      [] h = "bvs" -> branch(m, address, getV(cpu) = 1)
      [] h = "clc" -> setC(m, FALSE)
      [] h = "cld" -> setD(m, FALSE)
      [] h = "cli" -> setI(m, FALSE)
      [] h = "clv" -> setV(m, FALSE)
      [] h = "cmp" -> compareWith(readByte(m, address), "A")
      [] h = "cpx" -> compareWith(readByte(m, address), "X")
      [] h = "cpy" -> compareWith(readByte(m, address), "Y")
      [] h = "dec" -> incdec(m, address, -1)
      [] h = "dex" -> setReg(m, "X", U8(cpu.X - 1))
      [] h = "dey" -> setReg(m, "Y", U8(cpu.Y - 1))
      [] h = "eor" -> eor(m, address)
      [] h = "inc" -> incdec(m, address, 1)
      [] h = "inx" -> setReg(m, "X", U8(cpu.X + 1))
      [] h = "iny" -> setReg(m, "Y", U8(cpu.Y + 1))
      [] h = "jmp" -> [m EXCEPT !.cpu.PC = address]
      [] h = "jsr" -> jsr(m, address)
      [] h = "lda" -> load(m, address, "A")
      [] h = "ldx" -> load(m, address, "X")
      [] h = "ldy" -> load(m, address, "Y")
      [] h = "lsr" -> lsr(m, address, mode)
      [] h = "nop" -> m
      [] h = "ora" -> ora(m, address)
      [] h = "pha" -> push(m, cpu.A)
      [] h = "php" -> php(m)
      [] h = "pla" -> pla(m)
      [] h = "plp" -> plp(m)
      [] h = "rol" -> rol(m, address, mode)
      [] h = "ror" -> ror(m, address, mode)
      [] h = "rti" -> rti(m)
      [] h = "rts" -> rts(m)
      [] h = "sbc" -> sbc(m, address)
      [] h = "sec" -> setC(m, TRUE)
      [] h = "sed" -> setD(m, TRUE)
      [] h = "sei" -> setI(m, TRUE)
      [] h = "sta" -> writeByte(m, address, cpu.A)
      [] h = "stx" -> writeByte(m, address, cpu.X)
      [] h = "sty" -> writeByte(m, address, cpu.Y)
      [] h = "tax" -> setReg(m, "X", cpu.A)
      [] h = "tay" -> setReg(m, "Y", cpu.A)
      [] h = "tsx" -> setReg(m, "X", cpu.SP)
      [] h = "txa" -> setReg(m, "A", cpu.X)
      [] h = "txs" -> [m EXCEPT !.cpu.SP = cpu.X]
      [] h = "tya" -> setReg(m, "A", cpu.Y)

\* The decode table: <<name, handler, mode, size, cycles, page_cross_cycles>>
\* for opcode 0, 1, ..., 255.
instructions == <<
    <<"BRK", "brk", 6, 1, 7, 0>>,
    <<"ORA", "ora", 7, 2, 6, 0>>,
    <<"KIL", "nop", 6, 0, 2, 0>>,
    <<"SLO", "nop", 7, 0, 8, 0>>,
    <<"NOP", "nop", 11, 2, 3, 0>>,
    <<"ORA", "ora", 11, 2, 3, 0>>,
    <<"ASL", "asl", 11, 2, 5, 0>>,
    <<"SLO", "nop", 11, 0, 5, 0>>,
    <<"PHP", "php", 6, 1, 3, 0>>,
    <<"ORA", "ora", 5, 2, 2, 0>>,
    <<"ASL", "asl", 4, 1, 2, 0>>,
    <<"ANC", "nop", 5, 0, 2, 0>>,
    <<"NOP", "nop", 1, 3, 4, 0>>,
    <<"ORA", "ora", 1, 3, 4, 0>>,
    <<"ASL", "asl", 1, 3, 6, 0>>,
    <<"SLO", "nop", 1, 0, 6, 0>>,
    <<"BPL", "bpl", 10, 2, 2, 1>>,
    <<"ORA", "ora", 9, 2, 5, 1>>,
    <<"KIL", "nop", 6, 0, 2, 0>>,
    <<"SLO", "nop", 9, 0, 8, 0>>,
    <<"NOP", "nop", 12, 2, 4, 0>>,
    <<"ORA", "ora", 12, 2, 4, 0>>,
    <<"ASL", "asl", 12, 2, 6, 0>>,
    <<"SLO", "nop", 12, 0, 6, 0>>,
    <<"CLC", "clc", 6, 1, 2, 0>>,
    <<"ORA", "ora", 3, 3, 4, 1>>,
    <<"NOP", "nop", 6, 1, 2, 0>>,
    <<"SLO", "nop", 3, 0, 7, 0>>,
    <<"NOP", "nop", 2, 3, 4, 1>>,
    <<"ORA", "ora", 2, 3, 4, 1>>,
    <<"ASL", "asl", 2, 3, 7, 0>>,
    <<"SLO", "nop", 2, 0, 7, 0>>,
    <<"JSR", "jsr", 1, 3, 6, 0>>,
    <<"AND", "and_instruction", 7, 2, 6, 0>>,
    <<"KIL", "nop", 6, 0, 2, 0>>,
    <<"RLA", "nop", 7, 0, 8, 0>>,
    <<"BIT", "bit", 11, 2, 3, 0>>,
    <<"AND", "and_instruction", 11, 2, 3, 0>>,
    <<"ROL", "rol", 11, 2, 5, 0>>,
    <<"RLA", "nop", 11, 0, 5, 0>>,
    <<"PLP", "plp", 6, 1, 4, 0>>,
    <<"AND", "and_instruction", 5, 2, 2, 0>>,
    <<"ROL", "rol", 4, 1, 2, 0>>,
    <<"ANC", "nop", 5, 0, 2, 0>>,
    <<"BIT", "bit", 1, 3, 4, 0>>,
    <<"AND", "and_instruction", 1, 3, 4, 0>>,
    <<"ROL", "rol", 1, 3, 6, 0>>,
    <<"RLA", "nop", 1, 0, 6, 0>>,
    <<"BMI", "bmi", 10, 2, 2, 1>>,
    <<"AND", "and_instruction", 9, 2, 5, 1>>,
    <<"KIL", "and_instruction", 6, 0, 2, 0>>,
    <<"RLA", "nop", 9, 0, 8, 0>>,
    <<"NOP", "nop", 12, 2, 4, 0>>,
    <<"AND", "nop", 12, 2, 4, 0>>,
    <<"ROL", "rol", 12, 2, 6, 0>>,
    <<"RLA", "nop", 12, 0, 6, 0>>,
    <<"SEC", "sec", 6, 1, 2, 0>>,
    <<"AND", "and_instruction", 3, 3, 4, 1>>,
    <<"NOP", "nop", 6, 1, 2, 0>>,
    <<"RLA", "nop", 3, 0, 7, 0>>,
    <<"NOP", "nop", 2, 3, 4, 1>>,
    <<"AND", "and_instruction", 2, 3, 4, 1>>,
    <<"ROL", "rol", 2, 3, 7, 0>>,
    <<"RLA", "nop", 2, 0, 7, 0>>,
    <<"RTI", "rti", 6, 1, 6, 0>>,
    <<"EOR", "eor", 7, 2, 6, 0>>,
    <<"KIL", "nop", 6, 0, 2, 0>>,
    <<"SRE", "nop", 7, 0, 8, 0>>,
    <<"NOP", "nop", 11, 2, 3, 0>>,
    <<"EOR", "eor", 11, 2, 3, 0>>,
    <<"LSR", "lsr", 11, 2, 5, 0>>,
    <<"SRE", "nop", 11, 0, 5, 0>>,
    <<"PHA", "pha", 6, 1, 3, 0>>,
    <<"EOR", "eor", 5, 2, 2, 0>>,
    <<"LSR", "lsr", 4, 1, 2, 0>>,
    <<"ALR", "nop", 5, 0, 2, 0>>,
    <<"JMP", "jmp", 1, 3, 3, 0>>,
    <<"EOR", "eor", 1, 3, 4, 0>>,
    <<"LSR", "lsr", 1, 3, 6, 0>>,
    <<"SRE", "nop", 1, 0, 6, 0>>,
    <<"BVC", "bvc", 10, 2, 2, 1>>,
    <<"EOR", "eor", 9, 2, 5, 1>>,
    <<"KIL", "nop", 6, 0, 2, 0>>,
    <<"SRE", "nop", 9, 0, 8, 0>>,
    <<"NOP", "nop", 12, 2, 4, 0>>,
    <<"EOR", "eor", 12, 2, 4, 0>>,
    <<"LSR", "lsr", 12, 2, 6, 0>>,
    <<"SRE", "nop", 12, 0, 6, 0>>,
    <<"CLI", "cli", 6, 1, 2, 0>>,
    <<"EOR", "eor", 3, 3, 4, 1>>,
    <<"NOP", "nop", 6, 1, 2, 0>>,
    <<"SRE", "nop", 3, 0, 7, 0>>,
    <<"NOP", "nop", 2, 3, 4, 1>>,
    <<"EOR", "eor", 2, 3, 4, 1>>,
    <<"LSR", "lsr", 2, 3, 7, 0>>,
    <<"SRE", "nop", 2, 0, 7, 0>>,
    <<"RTS", "rts", 6, 1, 6, 0>>,
    <<"ADC", "adc", 7, 2, 6, 0>>,
    <<"KIL", "nop", 6, 0, 2, 0>>,
    <<"RRA", "nop", 7, 0, 8, 0>>,
    <<"NOP", "nop", 11, 2, 3, 0>>,
    <<"ADC", "adc", 11, 2, 3, 0>>,
    <<"ROR", "ror", 11, 2, 5, 0>>,
    <<"RRA", "nop", 11, 0, 5, 0>>,
    <<"PLA", "pla", 6, 1, 4, 0>>,
    <<"ADC", "adc", 5, 2, 2, 0>>,
    <<"ROR", "ror", 4, 1, 2, 0>>,
    <<"ARR", "nop", 5, 0, 2, 0>>,
    <<"JMP", "jmp", 8, 3, 5, 0>>,
    <<"ADC", "adc", 1, 3, 4, 0>>,
    <<"ROR", "ror", 1, 3, 6, 0>>,
    <<"RRA", "nop", 1, 0, 6, 0>>,
    <<"BVS", "bvs", 10, 2, 2, 1>>,
    <<"ADC", "adc", 9, 2, 5, 1>>,
    <<"KIL", "nop", 6, 0, 2, 0>>,
    <<"RRA", "nop", 9, 0, 8, 0>>,
    <<"NOP", "nop", 12, 2, 4, 0>>,
    <<"ADC", "adc", 12, 2, 4, 0>>,
    <<"ROR", "ror", 12, 2, 6, 0>>,
    <<"RRA", "nop", 12, 0, 6, 0>>,
    <<"SEI", "sei", 6, 1, 2, 0>>,
    <<"ADC", "adc", 3, 3, 4, 1>>,
    <<"NOP", "nop", 6, 1, 2, 0>>,
    <<"RRA", "nop", 3, 0, 7, 0>>,
    <<"NOP", "nop", 2, 3, 4, 1>>,
    <<"ADC", "adc", 2, 3, 4, 1>>,
    <<"ROR", "ror", 2, 3, 7, 0>>,
    <<"RRA", "nop", 2, 0, 7, 0>>,
    <<"NOP", "nop", 5, 2, 2, 0>>,
    <<"STA", "sta", 7, 2, 6, 0>>,
    <<"NOP", "nop", 5, 0, 2, 0>>,
    <<"SAX", "nop", 7, 0, 6, 0>>,
    <<"STY", "sty", 11, 2, 3, 0>>,
    <<"STA", "sta", 11, 2, 3, 0>>,
    <<"STX", "stx", 11, 2, 3, 0>>,
    <<"SAX", "nop", 11, 0, 3, 0>>,
    <<"DEY", "dey", 6, 1, 2, 0>>,
    <<"NOP", "nop", 5, 0, 2, 0>>,
    <<"TXA", "txa", 6, 1, 2, 0>>,
    <<"XAA", "nop", 5, 0, 2, 0>>,
    <<"STY", "sty", 1, 3, 4, 0>>,
    <<"STA", "sta", 1, 3, 4, 0>>,
    <<"STX", "stx", 1, 3, 4, 0>>,
    <<"SAX", "nop", 1, 0, 4, 0>>,
    <<"BCC", "bcc", 10, 2, 2, 1>>,
    <<"STA", "sta", 9, 2, 6, 0>>,
    <<"KIL", "nop", 6, 0, 2, 0>>,
    <<"AHX", "nop", 9, 0, 6, 0>>,
    <<"STY", "sty", 12, 2, 4, 0>>,
    <<"STA", "sta", 12, 2, 4, 0>>,
    <<"STX", "stx", 13, 2, 4, 0>>,
    <<"SAX", "nop", 13, 0, 4, 0>>,
    <<"TYA", "tya", 6, 1, 2, 0>>,
    <<"STA", "sta", 3, 3, 5, 0>>,
    <<"TXS", "txs", 6, 1, 2, 0>>,
    <<"TAS", "nop", 3, 0, 5, 0>>,
    <<"SHY", "nop", 2, 0, 5, 0>>,
    <<"STA", "sta", 2, 3, 5, 0>>,
    <<"SHX", "nop", 3, 0, 5, 0>>,
    <<"AHX", "nop", 3, 0, 5, 0>>,
    <<"LDY", "ldy", 5, 2, 2, 0>>,
    <<"LDA", "lda", 7, 2, 6, 0>>,
    <<"LDX", "ldx", 5, 2, 2, 0>>,
    <<"LAX", "nop", 7, 0, 6, 0>>,
    <<"LDY", "ldy", 11, 2, 3, 0>>,
    <<"LDA", "lda", 11, 2, 3, 0>>,
    <<"LDX", "ldx", 11, 2, 3, 0>>,
    <<"LAX", "nop", 11, 0, 3, 0>>,
    <<"TAY", "tay", 6, 1, 2, 0>>,
    <<"LDA", "lda", 5, 2, 2, 0>>,
    <<"TAX", "tax", 6, 1, 2, 0>>,
    <<"LAX", "nop", 5, 0, 2, 0>>,
    <<"LDY", "ldy", 1, 3, 4, 0>>,
    <<"LDA", "lda", 1, 3, 4, 0>>,
    <<"LDX", "ldx", 1, 3, 4, 0>>,
    <<"LAX", "nop", 1, 0, 4, 0>>,
    <<"BCS", "bcs", 10, 2, 2, 1>>,
    <<"LDA", "lda", 9, 2, 5, 1>>,
    <<"KIL", "nop", 6, 0, 2, 0>>,
    <<"LAX", "nop", 9, 0, 5, 1>>,
    <<"LDY", "ldy", 12, 2, 4, 0>>,
    <<"LDA", "lda", 12, 2, 4, 0>>,
    <<"LDX", "ldx", 13, 2, 4, 0>>,
    <<"LAX", "nop", 13, 0, 4, 0>>,
    <<"CLV", "clv", 6, 1, 2, 0>>,
    <<"LDA", "lda", 3, 3, 4, 1>>,
    <<"TSX", "tsx", 6, 1, 2, 0>>,
    <<"LAS", "nop", 3, 0, 4, 1>>,
    <<"LDY", "ldy", 2, 3, 4, 1>>,
    <<"LDA", "lda", 2, 3, 4, 1>>,
    <<"LDX", "ldx", 3, 3, 4, 1>>,
    <<"LAX", "nop", 3, 0, 4, 1>>,
    <<"CPY", "cpy", 5, 2, 2, 0>>,
    <<"CMP", "cmp", 7, 2, 6, 0>>,
    <<"NOP", "nop", 5, 0, 2, 0>>,
    <<"DCP", "nop", 7, 0, 8, 0>>,
    <<"CPY", "cpy", 11, 2, 3, 0>>,
    <<"CMP", "cmp", 11, 2, 3, 0>>,
    <<"DEC", "dec", 11, 2, 5, 0>>,
    <<"DCP", "nop", 11, 0, 5, 0>>,
    <<"INY", "iny", 6, 1, 2, 0>>,
    <<"CMP", "cmp", 5, 2, 2, 0>>,
    <<"DEX", "dex", 6, 1, 2, 0>>,
    <<"AXS", "nop", 5, 0, 2, 0>>,
    <<"CPY", "cpy", 1, 3, 4, 0>>,
    <<"CMP", "cmp", 1, 3, 4, 0>>,
    <<"DEC", "dec", 1, 3, 6, 0>>,
    <<"DCP", "nop", 1, 0, 6, 0>>,
    <<"BNE", "bne", 10, 2, 2, 1>>,
    <<"CMP", "cmp", 9, 2, 5, 1>>,
    <<"KIL", "nop", 6, 0, 2, 0>>,
    <<"DCP", "nop", 9, 0, 8, 0>>,
    <<"NOP", "nop", 12, 2, 4, 0>>,
    <<"CMP", "cmp", 12, 2, 4, 0>>,
    <<"DEC", "dec", 12, 2, 6, 0>>,
    <<"DCP", "nop", 12, 0, 6, 0>>,
    <<"CLD", "cld", 6, 1, 2, 0>>,
    <<"CMP", "cmp", 3, 3, 4, 1>>,
    <<"NOP", "nop", 6, 1, 2, 0>>,
    <<"DCP", "nop", 3, 0, 7, 0>>,
    <<"NOP", "nop", 2, 3, 4, 1>>,
    <<"CMP", "cmp", 2, 3, 4, 1>>,
    <<"DEC", "dec", 2, 3, 7, 0>>,
    <<"DCP", "nop", 2, 0, 7, 0>>,
    <<"CPX", "cpx", 5, 2, 2, 0>>,
    <<"SBC", "sbc", 7, 2, 6, 0>>,
    <<"NOP", "nop", 5, 0, 2, 0>>,
    <<"ISC", "nop", 7, 0, 8, 0>>,
    <<"CPX", "cpx", 11, 2, 3, 0>>,
    <<"SBC", "sbc", 11, 2, 3, 0>>,
    <<"INC", "inc", 11, 2, 5, 0>>,
    <<"ISC", "nop", 11, 0, 5, 0>>,
    <<"INX", "inx", 6, 1, 2, 0>>,
    <<"SBC", "sbc", 5, 2, 2, 0>>,
    <<"NOP", "nop", 6, 1, 2, 0>>,
    <<"SBC", "sbc", 5, 0, 2, 0>>,
    <<"CPX", "cpx", 1, 3, 4, 0>>,
    <<"SBC", "sbc", 1, 3, 4, 0>>,
    <<"INC", "inc", 1, 3, 6, 0>>,
    <<"ISC", "nop", 1, 0, 6, 0>>,
    <<"BEQ", "beq", 10, 2, 2, 1>>,
    <<"SBC", "sbc", 9, 2, 5, 1>>,
    <<"KIL", "nop", 6, 0, 2, 0>>,
    <<"ISC", "nop", 9, 0, 8, 0>>,
    <<"NOP", "nop", 12, 2, 4, 0>>,
    <<"SBC", "sbc", 12, 2, 4, 0>>,
    <<"INC", "inc", 12, 2, 6, 0>>,
    <<"ISC", "nop", 12, 0, 6, 0>>,
    <<"SED", "sed", 6, 1, 2, 0>>,
    <<"SBC", "sbc", 3, 3, 4, 1>>,
    <<"NOP", "nop", 6, 1, 2, 0>>,
    <<"ISC", "nop", 3, 0, 7, 0>>,
    <<"NOP", "nop", 2, 3, 4, 1>>,
    <<"SBC", "sbc", 2, 3, 4, 1>>,
    <<"INC", "inc", 2, 3, 7, 0>>,
    <<"ISC", "nop", 2, 0, 7, 0>>
>>

\* Rows of the decode table as records.
Row(e) ==
    [name |-> e[1], handler |-> e[2], mode |-> e[3], size |-> e[4],
     cycles |-> e[5], page_cross_cycles |-> e[6]]

Instr(opcode) == Row(instructions[opcode + 1])

\* The effective address of execute()'s switch: the address, whether a page
\* was crossed, and the machine after the operand reads.
Res(a, crossed, mm) == [address |-> a, page_crossed |-> crossed, nes |-> mm]

\* address = the word or byte read.
Direct(r) == Res(r.val, FALSE, r.nes)

\* address = the word read + X or Y; page_crossed = pagesDiffer(address - index, address).
Indexed(r, index) ==
    Res(U16(r.val + index), pagesDiffer(U16(U16(r.val + index) - index), U16(r.val + index)),
        r.nes)

\* address = (the byte read + X or Y) & 0xFF.
ZeroPageIndexed(b, index) == Res(U8(b.val + index), FALSE, b.nes)

\* address = PC + 2 + offset, less 0x100 if offset >= 0x80.
Relative(b, PC) ==
    Res(U16(PC + 2 + b.val - (IF b.val >= 128 THEN 256 ELSE 0)), FALSE, b.nes)

\* read16_ff_bug at the pointer just read, plus 'index' within 'wrap'.
Pointer(p, index, wrap) == read16_ff_bug(p.nes, (p.val + index) % wrap)

Operand(m, mode) ==
    LET PC == m.cpu.PC
        X == m.cpu.X
        Y == m.cpu.Y
    IN  CASE mode = modeAbsolute -> Direct(read16(m, U16(PC + 1)))
          [] mode = modeAbsoluteX -> Indexed(read16(m, U16(PC + 1)), X)
          [] mode = modeAbsoluteY -> Indexed(read16(m, U16(PC + 1)), Y)
          [] mode = modeAccumulator -> Res(0, FALSE, m)
          [] mode = modeImmediate -> Res(U16(PC + 1), FALSE, m)
          [] mode = modeImplied -> Res(0, FALSE, m)
          [] mode = modeIndexedIndirect ->
               Direct(Pointer(readByte(m, U16(PC + 1)), X, 256))
          [] mode = modeIndirect ->
               Direct(Pointer(read16(m, U16(PC + 1)), 0, 65536))
          [] mode = modeIndirectIndexed ->
               Indexed(Pointer(readByte(m, U16(PC + 1)), 0, 256), Y)
          [] mode = modeRelative -> Relative(readByte(m, U16(PC + 1)), PC)
          [] mode = modeZeroPage -> Direct(readByte(m, U16(PC + 1)))
          [] mode = modeZeroPageX -> ZeroPageIndexed(readByte(m, U16(PC + 1)), X)
          [] mode = modeZeroPageY -> ZeroPageIndexed(readByte(m, U16(PC + 1)), Y)

\* PC += size; cycles += cycles (+ page_cross_cycles); dispatch.
executeAt(instruction, op) ==
    dispatch(instruction.handler,
             [op.nes EXCEPT
                 !.cpu.PC = U16(@ + instruction.size),
                 !.cpu.cycles = @ + instruction.cycles
                                + (IF op.page_crossed THEN instruction.page_cross_cycles ELSE 0)],
             op.address, instruction.mode)

decoded(m, instruction) == executeAt(instruction, Operand(m, instruction.mode))

execute(m, opcode) == decoded(m, Instr(opcode))
-----------------------------------------------------------------------------
(* The PPU and APU ticks and the interrupt sources: src/NES.cpp.           *)

\* triggerIRQ without the test of the I flag.
triggerIRQAlways(m) == [m EXCEPT !.cpu.interrupt = interruptIRQ]

triggerIRQ(m) ==
    IF getI(m.cpu) = 0 THEN [m EXCEPT !.cpu.interrupt = interruptIRQ] ELSE m

\* Whether this clock of the scanline counter calls triggerIRQ.
counterFires(mp) == mp.counter # 0 /\ mp.counter - 1 = 0 /\ mp.IRQ_enable

Mapper4_updateCounter(m) ==
    IF m.mapper.counter = 0
    THEN [m EXCEPT !.mapper.counter = m.mapper.reload]
    ELSE LET m1 == [m EXCEPT !.mapper.counter = @ - 1] IN
         IF counterFires(m.mapper) THEN triggerIRQ(m1) ELSE m1

\* The scroll-register updates of a rendering dot, in the order of the code.
\* Pre-render line, dots 280..304: copy the vertical bits of t.
copyY(ppu) ==
    IF ppu.scanline = 261 /\ ppu.cycle >= 280 /\ ppu.cycle <= 304
    THEN [ppu EXCEPT !.v = BitOr(BitAnd(@, 33823), BitAnd(ppu.t, 31712))]
    ELSE ppu

doLineRender(ppu) == ppu.scanline = 261 \/ ppu.scanline < 240

\* Every eighth fetch dot: increment coarse X.
incrementX(ppu) ==
    IF /\ doLineRender(ppu)
       /\ ((ppu.cycle >= 321 /\ ppu.cycle <= 336) \/ (ppu.cycle >= 1 /\ ppu.cycle <= 256))
       /\ (ppu.cycle % 8) = 0
    THEN [ppu EXCEPT !.v = IF (@ % 32) = 31
                           THEN BitXor(BitAnd(@, 65504), 1024)
                           ELSE U16(@ + 1)]
    ELSE ppu

\* The coarse-Y part of the increment at dot 256, y = (v & 0x03E0) >> 5.
coarseY(v, y) ==
    BitOr(BitAnd(IF y = 29 THEN BitXor(v, 2048) ELSE v, 64543),
          (IF y = 29 \/ y = 31 THEN 0 ELSE y + 1) * 32)

\* Dot 256: increment Y.
incrementY(ppu) ==
    IF doLineRender(ppu) /\ ppu.cycle = 256
    THEN [ppu EXCEPT !.v = IF BitAnd(@, 28672) # 28672
                           THEN U16(@ + 4096)
                           ELSE coarseY(BitAnd(@, 36863), (@ \div 32) % 32)]
    ELSE ppu

\* Dot 257: copy the horizontal bits of t.
copyX(ppu) ==
    IF doLineRender(ppu) /\ ppu.cycle = 257
    THEN [ppu EXCEPT !.v = BitOr(BitAnd(@, 64480), BitAnd(ppu.t, 1055))]
    ELSE ppu

RenderScroll(ppu) == copyX(incrementY(incrementX(copyY(ppu))))

\* Whether this tick's nmi_delay countdown asserts the NMI.
nmiExpires(ppu) == ppu.nmi_delay > 0 /\ ppu.nmi_delay - 1 = 0 /\ ppu.nmi_out /\ ppu.nmi_occurred

\* The nmi_delay countdown at the head of tickPPU.
nmiDelayStep(m) ==
    [m EXCEPT !.cpu.interrupt = IF nmiExpires(m.ppu) THEN interruptNMI ELSE @,
              !.ppu.nmi_delay = IF @ > 0 THEN @ - 1 ELSE @]

doRenderAlways(ppu) == TRUE

doRender(ppu) == ppu.flag_show_background # 0 \/ ppu.flag_show_sprites # 0

advanceDotKeepF(ppu) ==
    IF doRender(ppu) /\ ppu.f = 1 /\ ppu.scanline = 261 /\ ppu.cycle = 339
    THEN [ppu EXCEPT !.cycle = 0, !.scanline = 0, !.frame = @ + 1]
    ELSE IF ppu.cycle + 1 > 340
    THEN IF ppu.scanline + 1 > 261
         THEN [ppu EXCEPT !.cycle = 0, !.scanline = 0, !.frame = @ + 1, !.f = 1 - @]
         ELSE [ppu EXCEPT !.cycle = 0, !.scanline = @ + 1]
    ELSE [ppu EXCEPT !.cycle = @ + 1]

\* The dot, scanline and frame counters, with the skipped dot of odd frames.
advanceDot(ppu) ==
    IF doRender(ppu) /\ ppu.f = 1 /\ ppu.scanline = 261 /\ ppu.cycle = 339
    THEN [ppu EXCEPT !.cycle = 0, !.scanline = 0, !.frame = @ + 1, !.f = 1 - @]
    ELSE IF ppu.cycle + 1 > 340
    THEN IF ppu.scanline + 1 > 261
         THEN [ppu EXCEPT !.cycle = 0, !.scanline = 0, !.frame = @ + 1, !.f = 1 - @]
         ELSE [ppu EXCEPT !.cycle = 0, !.scanline = @ + 1]
    ELSE [ppu EXCEPT !.cycle = @ + 1]

\* The 64-bit tile_data and the 32-bit sprite patterns are kept as their
\* 4-bit groups, most significant first: tile_data[1..8] are the high 32
\* bits.  The frame buffers are written and never read by the emulation;
\* they are not part of the record.

\* The pixel of sprite slot k (from 0) at this dot, 0 outside the sprite.
spriteNibble(ppu, k) ==
    LET offset == (ppu.cycle - 1) - ppu.sprite_pos[k + 1]
    IN  IF offset < 0 \/ offset > 7 THEN 0 ELSE ppu.sprite_patterns[k + 1][offset + 1]

\* spritePixel: the first slot with a non-transparent pixel at this dot.
spritePixel(ppu) ==
    LET opaque == {k \in 0..(ppu.sprite_cnt - 1) : spriteNibble(ppu, k) % 4 # 0}
    IN  IF ppu.flag_show_sprites = 0 \/ opaque = {}
        THEN [i |-> 0, sprite |-> 0]
        ELSE [i |-> CHOOSE k \in opaque : \A j \in opaque : k <= j,
              sprite |-> spriteNibble(ppu, CHOOSE k \in opaque : \A j \in opaque : k <= j)]

\* The background pixel at this dot, from the high half of tile_data.
backgroundPixel(ppu) ==
    IF ppu.flag_show_background # 0 THEN ppu.tile_data[ppu.x + 1] ELSE 0

\* The test of a sprite-zero hit that always passes on two opaque pixels.
zeroHitAnySprite(ppu, x, background, sp, sprite) ==
    /\ background % 4 # 0
    /\ sprite % 4 # 0
    /\ x < 255

\* Both pixels opaque, the sprite is OAM entry 0 and x < 255.
zeroHit(ppu, x, background, sp, sprite) ==
    /\ background % 4 # 0
    /\ sprite % 4 # 0
    /\ ppu.sprite_idx[sp.i + 1] = 0
    /\ x < 255

\* The pixel of a visible dot: its only effect on the registers is the
\* sprite-zero hit.
renderPixel(ppu) ==
    IF /\ ppu.scanline < 240
       /\ ppu.cycle >= 1
       /\ ppu.cycle <= 256
       /\ zeroHit(ppu, ppu.cycle - 1,
                  IF ppu.cycle - 1 < 8 /\ ppu.flag_show_left_background = 0
                  THEN 0 ELSE backgroundPixel(ppu),
                  spritePixel(ppu),
                  IF ppu.cycle - 1 < 8 /\ ppu.flag_show_left_sprites = 0
                  THEN 0 ELSE spritePixel(ppu).sprite)
    THEN [ppu EXCEPT !.flag_sprite_zero_hit = 1]
    ELSE ppu

\* The eight pixels of a fetched tile row: attribute | low bit | high bit << 1.
tileRow(a, low, high) == [j \in 1..8 |-> a + Bit(low, 8 - j) + 2 * Bit(high, 8 - j)]

\* The address of the pattern row of the background tile.
tileAddress(ppu) ==
    U16(ppu.flag_background_tbl * 4096 + ppu.name_tbl_u8 * 16 + ((ppu.v \div 4096) % 8))

\* The address of the attribute byte of v.
attributeAddress(v) ==
    9152 + ((v \div 1024) % 4) * 1024 + ((v \div 128) % 8) * 8 + ((v \div 4) % 8)

\* The fetch of a fetch dot after tile_data <<= 4, by cycle & 7.
fetchStep(m, ppu) ==
    CASE ppu.cycle % 8 = 1 ->
           [ppu EXCEPT !.name_tbl_u8 = readPPU(m, 8192 + (ppu.v % 4096))]
      [] ppu.cycle % 8 = 3 ->
           [ppu EXCEPT !.attrib_tbl_u8 =
               ((readPPU(m, attributeAddress(ppu.v))
                    \div (2 ^ (Bit(ppu.v, 6) * 4 + Bit(ppu.v, 1) * 2))) % 4) * 4]
      [] ppu.cycle % 8 = 5 ->
           [ppu EXCEPT !.low_tile_u8 = readPPU(m, tileAddress(ppu))]
      [] ppu.cycle % 8 = 7 ->
           [ppu EXCEPT !.high_tile_u8 = readPPU(m, tileAddress(ppu) + 8)]
      [] ppu.cycle % 8 = 0 ->
           [ppu EXCEPT
               !.tile_data = [k \in 1..16 |->
                   IF k <= 8 THEN @[k]
                   ELSE BitOr(@[k], tileRow(ppu.attrib_tbl_u8, ppu.low_tile_u8,
                                            ppu.high_tile_u8)[k - 8])],
               !.low_tile_u8 = 0,
               !.high_tile_u8 = 0]
      [] OTHER -> ppu

\* if (do_line_render && fetch_cycle) { tile_data <<= 4; fetch }
fetchTile(m, ppu) ==
    IF /\ doLineRender(ppu)
       /\ ((ppu.cycle >= 321 /\ ppu.cycle <= 336) \/ (ppu.cycle >= 1 /\ ppu.cycle <= 256))
    THEN fetchStep(m, [ppu EXCEPT !.tile_data = [k \in 1..16 |-> IF k < 16 THEN @[k + 1] ELSE 0]])
    ELSE ppu

\* if (do_render) { pixel; fetch; scroll updates }
renderDot(m, ppu) ==
    IF doRender(ppu) THEN RenderScroll(fetchTile(m, renderPixel(ppu))) ELSE ppu

SpritesInRangeBelow(ppu) ==
    {s \in 0..63 :
        /\ ppu.scanline - Get(ppu.oam_tbl, 4 * s) > 0
        /\ ppu.scanline - Get(ppu.oam_tbl, 4 * s)
              <= (IF ppu.flag_sprite_size # 0 THEN 16 ELSE 8)}

\* The OAM entries on the scanline, in OAM order.
SpritesInRange(ppu) ==
    {s \in 0..63 :
        /\ ppu.scanline - Get(ppu.oam_tbl, 4 * s) >= 0
        /\ ppu.scanline - Get(ppu.oam_tbl, 4 * s)
              < (IF ppu.flag_sprite_size # 0 THEN 16 ELSE 8)}

\* The k-th (from 0) smallest element of S.
Kth(S, k) == CHOOSE e \in S : Cardinality({x \in S : x < e}) = k

\* The row of the sprite's tile and the tile, after the vertical flip and,
\* for 8x16 sprites, the choice of the half.
spriteRow(ppu, row, attributes, tile) ==
    IF ppu.flag_sprite_size = 0
    THEN [table |-> ppu.flag_sprite_tbl, tile |-> tile,
          row |-> IF Bit(attributes, 7) = 1 THEN 7 - row ELSE row]
    ELSE LET r == IF Bit(attributes, 7) = 1 THEN 15 - row ELSE row
         IN  [table |-> tile % 2,
              tile |-> IF r > 7 THEN U8((tile - (tile % 2)) + 1) ELSE tile - (tile % 2),
              row |-> IF r > 7 THEN r - 8 ELSE r]

spriteAddress(r) == U16(r.table * 4096 + r.tile * 16 + r.row)

\* The eight pixels of a sprite row, in screen order.
spritePattern(attributes, low, high) ==
    [j \in 1..8 |->
        (attributes % 4) * 4
        + (IF Bit(attributes, 6) = 1 THEN Bit(low, j - 1) + 2 * Bit(high, j - 1)
                                     ELSE Bit(low, 8 - j) + 2 * Bit(high, 8 - j))]

\* The pattern of OAM entry s on this scanline, fetched at 'address'.
spriteFetch(m, ppu, s, address) ==
    spritePattern(Get(ppu.oam_tbl, 4 * s + 2), readPPU(m, address), readPPU(m, U16(address + 8)))

\* The sprite slots after the evaluation: slot k takes the k-th entry in
\* range, the slots past the count keep their content.
spriteSlots(m, ppu, S) ==
    [ppu EXCEPT
        !.sprite_patterns = [k \in 1..8 |->
            IF k <= Cardinality(S)
            THEN spriteFetch(m, ppu, Kth(S, k - 1),
                    spriteAddress(spriteRow(ppu,
                        ppu.scanline - Get(ppu.oam_tbl, 4 * Kth(S, k - 1)),
                        Get(ppu.oam_tbl, 4 * Kth(S, k - 1) + 2),
                        Get(ppu.oam_tbl, 4 * Kth(S, k - 1) + 1))))
            ELSE @[k]],
        !.sprite_pos = [k \in 1..8 |->
            IF k <= Cardinality(S) THEN Get(ppu.oam_tbl, 4 * Kth(S, k - 1) + 3) ELSE @[k]],
        !.sprite_priorities = [k \in 1..8 |->
            IF k <= Cardinality(S) THEN Bit(Get(ppu.oam_tbl, 4 * Kth(S, k - 1) + 2), 5)
            ELSE @[k]],
        !.sprite_idx = [k \in 1..8 |-> IF k <= Cardinality(S) THEN Kth(S, k - 1) ELSE @[k]],
        !.flag_sprite_overflow = IF Cardinality(S) > 8 THEN 1 ELSE @,
        !.sprite_cnt = IF Cardinality(S) > 8 THEN 8 ELSE Cardinality(S)]

\* Sprite evaluation at dot 257.
evaluateSprites(m, ppu) ==
    IF doRender(ppu) /\ ppu.cycle = 257
    THEN IF ppu.scanline < 240
         THEN spriteSlots(m, ppu, SpritesInRange(ppu))
         ELSE [ppu EXCEPT !.sprite_cnt = 0]
    ELSE ppu

\* Scanline 241, dot 1: vblank begins.
vblankBegin(ppu) ==
    IF ppu.scanline = 241 /\ ppu.cycle = 1
    THEN PPUnmiShift([ppu EXCEPT !.nmi_occurred = TRUE])
    ELSE ppu

vblankEndKeepHit(ppu) ==
    IF ppu.scanline = 261 /\ ppu.cycle = 1
    THEN [PPUnmiShift([ppu EXCEPT !.nmi_occurred = FALSE]) EXCEPT
            !.flag_sprite_overflow = 0]
    ELSE ppu

\* Pre-render line, dot 1: vblank ends, the sprite flags are cleared.
vblankEnd(ppu) ==
    IF ppu.scanline = 261 /\ ppu.cycle = 1
    THEN [PPUnmiShift([ppu EXCEPT !.nmi_occurred = FALSE]) EXCEPT
            !.flag_sprite_zero_hit = 0, !.flag_sprite_overflow = 0]
    ELSE ppu

tickPPU(m) ==
    [nmiDelayStep(m) EXCEPT
        !.ppu = vblankEnd(vblankBegin(evaluateSprites(m, renderDot(m, advanceDot(@)))))]

\* The frame-sequencer step number int(cycle / FRAME_CTR_FREQ), with
\* FRAME_CTR_FREQ = CPU_FREQ / 240.
FrameStep(cycle) == (cycle * 240) \div CPU_FREQ

\* The DMC reader: the byte read goes to the shift register.
dmcLoaded(d, value) ==
    LET e == [d EXCEPT !.shift_reg = value, !.bit_count = 8,
                       !.cur_addr = IF U16(@ + 1) = 0 THEN 32768 ELSE U16(@ + 1),
                       !.cur_len = @ - 1]
    IN  IF e.cur_len = 0 /\ e.loop THEN dmcRestart(e) ELSE e

dmcFetched(r) == [r.nes EXCEPT !.apu.dmc = dmcLoaded(@, r.val)]

dmcReader(m) ==
    IF m.apu.dmc.cur_len > 0 /\ m.apu.dmc.bit_count = 0
    THEN dmcFetched(readByte([m EXCEPT !.cpu.stall = @ + 4], m.apu.dmc.cur_addr))
    ELSE m

\* The DMC shifter: one bit of the shift register moves the output level.
dmcShifter(e) ==
    IF e.bit_count # 0
    THEN [e EXCEPT !.value = IF (e.shift_reg % 2) = 1
                             THEN (IF @ <= 125 THEN @ + 2 ELSE @)
                             ELSE (IF @ >= 2 THEN @ - 2 ELSE @),
                   !.shift_reg = @ \div 2,
                   !.bit_count = @ - 1]
    ELSE e

dmcTimer(d) ==
    IF d.tick_val = 0
    THEN dmcShifter([d EXCEPT !.tick_val = d.tick_period])
    ELSE [d EXCEPT !.tick_val = @ - 1]

\* The DMC reader and shifter of an even APU cycle.
tickDMC(m) == [dmcReader(m) EXCEPT !.apu.dmc = dmcTimer(@)]

\* Whether the tick from apu.cycle to apu.cycle + 1 is a frame-sequencer step
\* that calls triggerIRQ.
frameFires(apu) ==
    /\ FrameStep(apu.cycle) # FrameStep(apu.cycle + 1)
    /\ apu.frame_period = 4
    /\ (apu.frame_val + 1) % 4 = 3
    /\ apu.frame_IRQ

\* The pulse and noise timers of an even APU cycle.
channelTimers(apu) ==
    [apu EXCEPT !.pulse1 = tickPulseTimer(@),
                !.pulse2 = tickPulseTimer(@),
                !.noise = tickNoiseTimer(@)]

\* if (cycle2 % 2 == 0) { pulse and noise timers, DMC }, then the triangle
\* timer.
timersStep(m) ==
    [(IF (m.apu.cycle % 2) = 0
      THEN (IF m.apu.dmc.enabled
            THEN tickDMC([m EXCEPT !.apu = channelTimers(@)])
            ELSE [m EXCEPT !.apu = channelTimers(@)])
      ELSE m)
     EXCEPT !.apu.triangle = tickTriangleTimer(@)]

\* The units a step of the 4-step sequence clocks, frame_val already
\* advanced.
sequence4(apu) ==
    IF apu.frame_val = 0 \/ apu.frame_val = 2
    THEN tickEnvelope(apu)
    ELSE tickLength(tickSweep(tickEnvelope(apu)))

sequence5Early(apu) ==
    IF apu.frame_val = 0 \/ apu.frame_val = 2
    THEN tickEnvelope(apu)
    ELSE IF apu.frame_val = 1 \/ apu.frame_val = 3
    THEN tickLength(tickSweep(tickEnvelope(apu)))
    ELSE apu

\* The units a step of the 5-step sequence clocks.
sequence5(apu) ==
    IF apu.frame_val = 1 \/ apu.frame_val = 3
    THEN tickEnvelope(apu)
    ELSE IF apu.frame_val = 0 \/ apu.frame_val = 2
    THEN tickLength(tickSweep(tickEnvelope(apu)))
    ELSE apu

\* The frame sequencer, on the tick from cycle1 to cycle1 + 1; 'fires' is
\* frameFires of the APU before the tick.
frameSequencer(m, cycle1, fires) ==
    IF FrameStep(cycle1) # FrameStep(cycle1 + 1)
    THEN IF m.apu.frame_period = 4
         THEN IF fires
              THEN triggerIRQ([m EXCEPT !.apu = sequence4([@ EXCEPT !.frame_val = (@ + 1) % 4])])
              ELSE [m EXCEPT !.apu = sequence4([@ EXCEPT !.frame_val = (@ + 1) % 4])]
         ELSE IF m.apu.frame_period = 5
         THEN [m EXCEPT !.apu = sequence5([@ EXCEPT !.frame_val = (@ + 1) % 5])]
         ELSE m
    ELSE m

tickAPU(m) ==
    frameSequencer(timersStep([m EXCEPT !.apu.cycle = @ + 1]), m.apu.cycle, frameFires(m.apu))
-----------------------------------------------------------------------------
(* The machine after construction: NES::NES, src/memory.cpp.               *)

Cartridge_new(rom) ==
    [mapper |-> 4, mirror |-> MirrorHorizontal, prg_size |-> 32768,
     chr_size |-> 8192, rom |-> rom, CHR |-> ZeroArray, SRAM |-> ZeroArray]

Controller_new == [buttons |-> 0, index |-> 0, strobe |-> 0]

CPU_new ==
    [cycles |-> 0, PC |-> 0, SP |-> 0, A |-> 0, X |-> 0, Y |-> 0, flags |-> 0,
     interrupt |-> 0, stall |-> 0]

DMC_new ==
    [enabled |-> FALSE, value |-> 0, samp_addr |-> 0, samp_len |-> 0,
     cur_addr |-> 0, cur_len |-> 0, shift_reg |-> 0, bit_count |-> 0,
     tick_period |-> 0, tick_val |-> 0, loop |-> FALSE, irq |-> FALSE]

\* APU(); NES::NES then sets noise.shift_reg and the pulse channel numbers.
APU_new == [cycle |-> 0, frame_period |-> 0, frame_val |-> 0, frame_IRQ |-> FALSE,
            pulse1 |-> Pulse_new(1), pulse2 |-> Pulse_new(2), triangle |-> Triangle_new,
            noise |-> Noise_new, dmc |-> DMC_new]

PPU_new ==
    [cycle |-> 0, scanline |-> 0, frame |-> 0, v |-> 0, t |-> 0, x |-> 0, w |-> 0,
     f |-> 0, reg |-> 0, nmi_occurred |-> FALSE, nmi_out |-> FALSE,
     nmi_last |-> FALSE, nmi_delay |-> 0,
     flag_name_tbl |-> 0, flag_increment |-> 0, flag_sprite_tbl |-> 0,
     flag_background_tbl |-> 0, flag_sprite_size |-> 0, flag_rw |-> 0,
     flag_gray |-> 0, flag_show_left_background |-> 0, flag_show_left_sprites |-> 0,
     flag_show_background |-> 0, flag_show_sprites |-> 0, flag_red_tint |-> 0,
     flag_green_tint |-> 0, flag_blue_tint |-> 0, flag_sprite_zero_hit |-> 0,
     flag_sprite_overflow |-> 0, oam_addr |-> 0, buffered_data |-> 0,
     palette_tbl |-> ZeroArray, name_tbl |-> ZeroArray, oam_tbl |-> ZeroArray,
     name_tbl_u8 |-> 0, attrib_tbl_u8 |-> 0, low_tile_u8 |-> 0, high_tile_u8 |-> 0,
     tile_data |-> [k \in 1..16 |-> 0], sprite_cnt |-> 0,
     sprite_patterns |-> [k \in 1..8 |-> [j \in 1..8 |-> 0]],
     sprite_pos |-> [k \in 1..8 |-> 0], sprite_priorities |-> [k \in 1..8 |-> 0],
     sprite_idx |-> [k \in 1..8 |-> 0]]

Mapper4_new(c) ==
    [reg |-> 0, regs |-> <<0, 0, 0, 0, 0, 0, 0, 0>>, prg_mode |-> 0, chr_mode |-> 0,
     prg_offsets |-> <<Mapper4_prgBankOffset(c, 0), Mapper4_prgBankOffset(c, 1),
                       Mapper4_prgBankOffset(c, -2), Mapper4_prgBankOffset(c, -1)>>,
     chr_offsets |-> <<0, 0, 0, 0, 0, 0, 0, 0>>,
     reload |-> 0, counter |-> 0, IRQ_enable |-> FALSE]

\* The other mappers' cartridges: iNES images of mapper 0, 1, 2, 3 or 7 with
\* the PRG image 'rom' in the last 8 KiB and sizes that hold every bank the
\* mapper can select.
Cartridge_for(mapper, rom) ==
    [mapper |-> mapper, mirror |-> MirrorHorizontal,
     prg_size |-> CASE mapper = 7 -> 262144 [] mapper = 1 \/ mapper = 2 -> 65536
                    [] OTHER -> 32768,
     chr_size |-> CASE mapper = 3 -> 32768 [] mapper = 1 -> 16384 [] OTHER -> 8192,
     rom |-> rom, CHR |-> ZeroArray, SRAM |-> ZeroArray]

Mapper1_new(c) ==
    [shift_reg |-> 16, control |-> 0, prg_mode |-> 0, chr_mode |-> 0, prg_bank |-> 0,
     chr_bank0 |-> 0, chr_bank1 |-> 0,
     prg_offsets |-> <<0, Mapper1_prgBankOffset(c, -1)>>, chr_offsets |-> <<0, 0>>]

Mapper2_new(c) ==
    [prg_banks |-> c.prg_size \div 16384, prg_bank1 |-> 0,
     prg_bank2 |-> (c.prg_size \div 16384) - 1]

Mapper3_new(c) ==
    [chr_bank |-> 0, prg_bank1 |-> 0, prg_bank2 |-> (c.prg_size \div 16384) - 1]

Mapper7_new == [prg_bank |-> 0]

\* The mapper NES::NES creates for the cartridge.
Mapper_new(c) ==
    CASE c.mapper = 0 \/ c.mapper = 2 -> Mapper2_new(c)
      [] c.mapper = 1 -> Mapper1_new(c)
      [] c.mapper = 3 -> Mapper3_new(c)
      [] c.mapper = 4 -> Mapper4_new(c)
      [] c.mapper = 7 -> Mapper7_new

\* The machine before the CPU's reset vector is read.
NES_parts(c) ==
    [cpu |-> CPU_new, ppu |-> PPU_new, apu |-> APU_new,
     mapper |-> Mapper_new(c), cartridge |-> c, RAM |-> ZeroArray,
     controller1 |-> Controller_new, controller2 |-> Controller_new]

NES_reset(m0) ==
    [m0 EXCEPT
        !.cpu = [CPU_new EXCEPT !.PC = read16(m0, 65532).val, !.SP = 253, !.flags = 36],
        !.ppu = [writePPUMask(writePPUCtrl(
                    [PPU_new EXCEPT !.cycle = 340, !.scanline = 250, !.frame = 0], 0), 0)
                 EXCEPT !.oam_addr = 0]]

NES_of(c) == NES_reset(NES_parts(c))

NES_new(rom) == NES_of(Cartridge_new(rom))

-----------------------------------------------------------------------------
(* emulate(), src/NES.cpp: one pass of the while loop is a CPU step, then  *)
(* the PPU loop, then the APU loop.  pc is the position inside the pass,   *)
(* cycles and cpuCycles are emulate's locals, i is the running loop index. *)
(* last and hist are history variables: last describes the most recent CPU *)
(* step, hist counts ticks and remembers interrupt requests.               *)

\* The machine after the reset code idled for k CPU cycles (rendering off,
\* NMI off, no PPU or APU register access): tickPPU and tickAPU applied 3k
\* and k times to NES_new.  With armed, the reset code began with
\* LDA #$00 ; STA $4017 (4-step sequence, frame IRQ on; Z is set by the
\* load), so the sequencer has stepped FrameStep(k) times.  The pulse and
\* noise timers, of period 0, have expired on each of the k / 2 even cycles:
\* the duty indices and the noise shift register have been clocked as often.
RECURSIVE noiseClocked(_, _)
noiseClocked(n, count) ==
    IF count = 0 THEN n
    ELSE IF count = 1 THEN noiseClock(n)
    ELSE CHOOSE r \in {noiseClocked(h, count - (count \div 2)) :
                        h \in {noiseClocked(n, count \div 2)}} : TRUE

Warm(rom, k, armed) ==
    LET m == NES_new(rom)
        DotsPerLine == 341
        DotsPerFrame == 341 * 262
        dots == (250 * 341 + 340) + 3 * k
        idx == dots % DotsPerFrame
        frame == dots \div DotsPerFrame
        inVBlank == idx >= 241 * 341 + 1 /\ idx < 261 * 341 + 1
    IN  [m EXCEPT !.cpu.cycles = k,
                  !.cpu.interrupt = IF k > 0 THEN interruptNone ELSE @,
                  !.cpu.flags = IF armed THEN 38 ELSE @,
                  !.apu.cycle = k,
                  !.apu.pulse1.duty_val = (k \div 2) % 8,
                  !.apu.pulse2.duty_val = (k \div 2) % 8,
                  !.apu.noise = noiseClocked(@, k \div 2),
                  !.apu.frame_period = IF armed THEN 4 ELSE 0,
                  !.apu.frame_IRQ = armed,
                  !.apu.frame_val = IF armed THEN FrameStep(k) % 4 ELSE 0,
                  !.ppu.cycle = idx % DotsPerLine,
                  !.ppu.scanline = idx \div DotsPerLine,
                  !.ppu.frame = frame,
                  !.ppu.f = frame % 2,
                  !.ppu.nmi_occurred = frame >= 1 /\ inVBlank]

MaxCycles == 280
MaxCalls == 2

\* The runs explored: <<PRG image, idle cycles before it, frame IRQ armed>>.
Scenarios ==
    { <<1, 0, FALSE>>, <<1, 22350, TRUE>>,
      <<2, 28614, FALSE>>, <<2, 29100, FALSE>>, <<2, 30912, FALSE>>, <<2, 22350, TRUE>>,
      <<3, 22350, TRUE>>, <<3, 28614, FALSE>>,
      <<4, 1218, FALSE>>, <<4, 22350, TRUE>>,
      <<5, 29100, FALSE>>,
      <<6, 0, FALSE>>,
      <<7, 30837, FALSE>>,
      <<8, 0, FALSE>> }

NoCtrl == [active |-> FALSE, dots |-> 0, held |-> FALSE, asserted |-> FALSE]

InitHistory(m, budget, calls) ==
    /\ last = [kind |-> "none", took |-> "none", opcode |-> 0, nmiWas |-> FALSE,
               irqDroppedWas |-> FALSE, cpuCycles |-> 0, pre |-> m, entry |-> m, post |-> m]
    /\ hist = [budget |-> budget, callsLeft |-> calls, start |-> m.apu.cycle,
               ppuTicks |-> 0, apuTicks |-> 0, stallSteps |-> 0,
               nmiPending |-> FALSE, irqDropped |-> FALSE, ctrl |-> NoCtrl]

Init ==
    \E sc \in Scenarios :
        /\ nes = Warm(sc[1], sc[2], sc[3])
        /\ pc = "done"
        /\ cycles = 0
        /\ cpuCycles = 0
        /\ i = 0
        /\ InitHistory(nes, MaxCycles, MaxCalls)

\* main(): emulate(nes, dt) with int(CPU_FREQ * dt + 0.5) = hist.budget.
Emulate ==
    /\ pc = "done"
    /\ hist.callsLeft > 0
    /\ cycles' = hist.budget
    /\ pc' = IF hist.budget > 0 THEN "cpu" ELSE "done"
    /\ hist' = [hist EXCEPT !.callsLeft = @ - 1]
    /\ UNCHANGED <<nes, cpuCycles, i, last>>

\* if (cpu->stall > 0) { --cpu->stall; cpuCycles = 1; }
CpuStall ==
    /\ pc = "cpu"
    /\ nes.cpu.stall > 0
    /\ nes' = [nes EXCEPT !.cpu.stall = @ - 1]
    /\ cpuCycles' = 1
    /\ pc' = "ppu"
    /\ i' = 0
    /\ last' = [last EXCEPT !.kind = "stall", !.took = "none", !.cpuCycles = 1,
                            !.pre = nes, !.entry = nes, !.post = nes']
    /\ hist' = [hist EXCEPT !.stallSteps = @ + 1]
    /\ UNCHANGED cycles

\* The interrupt sequence of emulate(): push PC and flags, load PC from the
\* vector, set I, 7 cycles.
interruptJump(r) ==
    [setI([r.nes EXCEPT !.cpu.PC = r.val], TRUE) EXCEPT !.cpu.cycles = @ + 7]

interruptEntry(m, vector) == interruptJump(read16(php(push16(m, m.cpu.PC)), vector))

\* The interrupt sequence of the latched interrupt, if any.
interruptStep(m) ==
    IF m.cpu.interrupt = interruptNMI THEN interruptEntry(m, 65530)
    ELSE IF m.cpu.interrupt = interruptIRQ THEN interruptEntry(m, 65534)
    ELSE m

\* execute(nes, readByte(nes, cpu->PC)), with r the opcode read.
fetched(entry, r) == [entry |-> entry, opcode |-> r.val, post |-> execute(r.nes, r.val)]

\* cpu->interrupt = interruptNone; fetch.
fetch(entry) ==
    fetched(entry, readByte([entry EXCEPT !.cpu.interrupt = interruptNone], entry.cpu.PC))

\* The else branch of emulate(): interrupt sequence if one is latched, clear
\* the latch, fetch, execute.
cpuStep(m) == fetch(interruptStep(m))

\* A write of $2000 that turns nmi_out on while nmi_occurred is set.
CtrlWrite(pre, post) ==
    ~pre.ppu.nmi_out /\ pre.ppu.nmi_occurred /\ post.ppu.nmi_out /\ post.ppu.nmi_occurred

CpuInstr ==
    /\ pc = "cpu"
    /\ nes.cpu.stall <= 0
    /\ \E s \in {cpuStep(nes)} :
         LET took == IF nes.cpu.interrupt = interruptNMI THEN "nmi"
                     ELSE IF nes.cpu.interrupt = interruptIRQ THEN "irq" ELSE "none"
         IN  /\ nes' = s.post
             /\ cpuCycles' = s.post.cpu.cycles - nes.cpu.cycles
             /\ last' = [kind |-> "instr", took |-> took, opcode |-> s.opcode,
                         nmiWas |-> hist.nmiPending, irqDroppedWas |-> hist.irqDropped,
                         cpuCycles |-> s.post.cpu.cycles - nes.cpu.cycles,
                         pre |-> nes, entry |-> s.entry, post |-> s.post]
             /\ hist' = [hist EXCEPT
                           !.nmiPending = FALSE,
                           !.irqDropped = IF took = "irq" THEN FALSE ELSE @,
                           !.ctrl = IF CtrlWrite(nes, s.post)
                                    THEN [active |-> TRUE, dots |-> 0, held |-> TRUE,
                                          asserted |-> FALSE]
                                    ELSE @]
    /\ pc' = "ppu"
    /\ i' = 0
    /\ UNCHANGED cycles

\* Two PPU ticks per CPU cycle.
ppuCyclesTwice(n) == n * 2

\* const int ppuCycles = cpuCycles * 3;
ppuCyclesOf(n) == n * 3

\* The test without the scanline range.
clocksCounterEveryLine(ppu) ==
    /\ ppu.cycle = 280
    /\ (ppu.flag_show_background # 0 \/ ppu.flag_show_sprites # 0)

\* Whether emulate() clocks the mapper's scanline counter after this tick.
clocksCounter(ppu) ==
    /\ ppu.cycle = 280
    /\ (ppu.scanline <= 239 \/ ppu.scanline >= 261)
    /\ (ppu.flag_show_background # 0 \/ ppu.flag_show_sprites # 0)

\* if (ppu->cycle == 280 && ...) mapper->updateCounter(cpu)
counterClock(m) == IF clocksCounter(m.ppu) THEN Mapper4_updateCounter(m) ELSE m

\* One pass of the PPU loop.
ppuLoopBody(m) == counterClock(tickPPU(m))

CtrlTick(c, ppu) ==
    IF c.active /\ c.dots < 15
    THEN [c EXCEPT !.dots = @ + 1,
                   !.held = @ /\ ppu.nmi_out /\ ppu.nmi_occurred,
                   !.asserted = @ \/ nmiExpires(ppu)]
    ELSE c

PpuTick ==
    /\ pc = "ppu"
    /\ i < ppuCyclesOf(cpuCycles)
    /\ nes' = ppuLoopBody(nes)
    /\ i' = IF i + 1 < ppuCyclesOf(cpuCycles) THEN i + 1 ELSE 0
    /\ pc' = IF i + 1 < ppuCyclesOf(cpuCycles) THEN "ppu" ELSE "apu"
    /\ hist' = [hist EXCEPT
                  !.ppuTicks = @ + 1,
                  !.nmiPending = @ \/ nmiExpires(nes.ppu),
                  !.irqDropped = @ \/ (/\ clocksCounter(tickPPU(nes).ppu)
                                       /\ counterFires(nes.mapper)
                                       /\ getI(nes.cpu) = 1),
                  !.ctrl = CtrlTick(@, nes.ppu)]
    /\ UNCHANGED <<cycles, cpuCycles, last>>

\* One pass of the APU loop; after the last one, cycles -= cpuCycles and the
\* while condition is tested.
ApuTick ==
    /\ pc = "apu"
    /\ i < cpuCycles
    /\ nes' = tickAPU(nes)
    /\ hist' = [hist EXCEPT
                  !.apuTicks = @ + 1,
                  !.irqDropped = @ \/ (frameFires(nes.apu) /\ getI(nes.cpu) = 1)]
    /\ IF i + 1 < cpuCycles
       THEN /\ i' = i + 1
            /\ pc' = "apu"
            /\ UNCHANGED cycles
       ELSE /\ i' = 0
            /\ cycles' = cycles - cpuCycles
            /\ pc' = IF cycles - cpuCycles > 0 THEN "cpu" ELSE "done"
    /\ UNCHANGED <<cpuCycles, last>>

Next == Emulate \/ CpuStall \/ CpuInstr \/ PpuTick \/ ApuTick

Spec == Init /\ [][Next]_vars

-----------------------------------------------------------------------------
(* Single instructions.  The instruction under test lies in RAM at $02F0   *)
(* with a two-byte operand; zero page holds pointers into RAM, the pages   *)
(* $02-$04 hold data, and the top of the stack holds bytes to pop.         *)

CpuBudget == 2

TestRAM(opcode, lo) ==
    (752 :> opcode) @@ (753 :> lo) @@ (754 :> 2) @@
    (0 :> 3) @@ (1 :> 4) @@ (16 :> 32) @@ (17 :> 3) @@ (18 :> 4) @@ (255 :> 255) @@
    (528 :> 129) @@ (529 :> 15) @@ (530 :> 240) @@ (767 :> 127) @@ (768 :> 1) @@
    (769 :> 128) @@ (802 :> 85) @@ (1025 :> 170) @@ (1027 :> 60) @@
    (256 :> 3) @@ (510 :> 223) @@ (511 :> 16)

Opcodes == 0..255
OperandLows == {16, 255}
FlagBytes == {36, 227}

InitCpu ==
    \E opcode \in Opcodes, lo \in OperandLows, fl \in FlagBytes, st \in {0, 1} :
        /\ nes = [Warm(1, 1218, FALSE) EXCEPT
                    !.RAM = IF opcode = 0 THEN [a \in (DOMAIN TestRAM(1, lo)) \ {752} |->
                                                   TestRAM(1, lo)[a]]
                            ELSE TestRAM(opcode, lo),
                    !.cpu.PC = 752,
                    !.cpu.A = 204, !.cpu.X = 1, !.cpu.Y = 2,
                    !.cpu.flags = fl,
                    !.cpu.stall = st]
        /\ pc = "done"
        /\ cycles = 0
        /\ cpuCycles = 0
        /\ i = 0
        /\ InitHistory(nes, CpuBudget, 1)

SpecCpu == InitCpu /\ [][Next]_vars

-----------------------------------------------------------------------------
(* CPU-bus accesses.  One step is one readByte or writeByte on the machine *)
(* after construction; last.pre and last.post are the machine before and   *)
(* after the access, last.prev is the access before it, hist.ops counts    *)
(* the accesses up to hist.max.                                            *)

MaxBusOps == 4

\* The access recorded in last, as the prev of the next one.
Previous ==
    [kind |-> last.kind, address |-> last.address, value |-> last.value, pre |-> last.pre]

InitBusHistory(m, max) ==
    /\ pc = "bus"
    /\ cycles = 0
    /\ cpuCycles = 0
    /\ i = 0
    /\ last = [kind |-> "none", address |-> 0, value |-> 0, pre |-> m, post |-> m,
               prev |-> [kind |-> "none", address |-> 0, value |-> 0, pre |-> m]]
    /\ hist = [ops |-> 0, max |-> max]

\* writeByte(nes, address, value) for an address and a value of the sets.
BusWrite(Addresses, Values) ==
    /\ pc = "bus"
    /\ hist.ops < hist.max
    /\ \E address \in Addresses, value \in Values :
         /\ nes' = writeByte(nes, address, value)
         /\ last' = [kind |-> "write", address |-> address, value |-> value,
                     pre |-> nes, post |-> nes', prev |-> Previous]
    /\ hist' = [hist EXCEPT !.ops = @ + 1]
    /\ UNCHANGED <<pc, cycles, cpuCycles, i>>

\* value = readByte(nes, address) for an address of the set.
BusRead(Addresses) ==
    /\ pc = "bus"
    /\ hist.ops < hist.max
    /\ \E address \in Addresses :
         \E r \in {readByte(nes, address)} :
            /\ nes' = r.nes
            /\ last' = [kind |-> "read", address |-> address, value |-> r.val,
                        pre |-> nes, post |-> nes', prev |-> Previous]
    /\ hist' = [hist EXCEPT !.ops = @ + 1]
    /\ UNCHANGED <<pc, cycles, cpuCycles, i>>

\* Work RAM: cells $0005 and $07FF through their mirrors.
RamAddresses == {5, 2053, 4101, 6149, 2047, 8191}
RamValues == {90, 165}
MaxRamOps == 2

InitRam ==
    /\ nes = NES_new(1)
    /\ InitBusHistory(nes, MaxRamOps)

RamWrite == BusWrite(RamAddresses, RamValues)
RamRead == BusRead(RamAddresses)
NextRam == RamWrite \/ RamRead

SpecRam == InitRam /\ [][NextRam]_vars

\* The palette through $2006/$2007: v is set to $3F00, $3F10, $3F04, $3F14 or
\* $3F01 by two address writes, then data is written or read.
PaletteAddressBytes == {63, 0, 16, 4, 20, 1}
PaletteValues == {42, 21}

InitPalette ==
    /\ nes = NES_new(1)
    /\ InitBusHistory(nes, MaxBusOps)

PaletteAddress == BusWrite({8198}, PaletteAddressBytes)
PaletteWrite == BusWrite({8199}, PaletteValues)
PaletteRead == BusRead({8199})
NextPalette == PaletteAddress \/ PaletteWrite \/ PaletteRead

SpecPalette == InitPalette /\ [][NextPalette]_vars

-----------------------------------------------------------------------------
(* MMC1 register writes.  The machine holds a mapper-1 cartridge; one step *)
(* is one CPU write to $8000-$FFFF.  hist.bits are the bit-0 values written *)
(* since the serial load last started (at construction, after a reset      *)
(* write or after a completed load); hist.fresh says that it last started  *)
(* with a reset write.  last.bits and last.fresh are their values before   *)
(* the write of last.                                                      *)

MaxMmc1Writes == 7

Mmc1Addresses == {32768, 40960, 49152, 57344, 65535}

InitMmc1 ==
    /\ nes = NES_of(Cartridge_for(1, 1))
    /\ pc = "mmc1"
    /\ cycles = 0
    /\ cpuCycles = 0
    /\ i = 0
    /\ last = [kind |-> "none", address |-> 0, value |-> 0, pre |-> nes, post |-> nes,
               bits |-> <<>>, fresh |-> FALSE]
    /\ hist = [ops |-> 0, bits |-> <<>>, fresh |-> FALSE]

Mmc1Written(address, value) ==
    /\ nes' = writeByte(nes, address, value)
    /\ last' = [kind |-> "write", address |-> address, value |-> value,
                pre |-> nes, post |-> nes', bits |-> hist.bits, fresh |-> hist.fresh]
    /\ UNCHANGED <<pc, cycles, cpuCycles, i>>

\* A write with bit 7 set.
Mmc1Reset ==
    /\ pc = "mmc1"
    /\ hist.ops < MaxMmc1Writes
    /\ \E address \in {32768, 57344}, value \in {128, 255} : Mmc1Written(address, value)
    /\ hist' = [ops |-> hist.ops + 1, bits |-> <<>>, fresh |-> TRUE]

\* A write with bit 7 clear.
Mmc1Shift ==
    /\ pc = "mmc1"
    /\ hist.ops < MaxMmc1Writes
    /\ \E address \in Mmc1Addresses, value \in {0, 1} :
         /\ Mmc1Written(address, value)
         /\ hist' = IF Len(hist.bits) = 4
                    THEN [ops |-> hist.ops + 1, bits |-> <<>>, fresh |-> FALSE]
                    ELSE [hist EXCEPT !.ops = @ + 1, !.bits = Append(@, value)]

NextMmc1 == Mmc1Reset \/ Mmc1Shift

SpecMmc1 == InitMmc1 /\ [][NextMmc1]_vars

-----------------------------------------------------------------------------
(* PPU registers on the CPU bus.  The machine starts after construction or *)
(* two dots before the vertical blank begins; a step is a write to         *)
(* PPUCTRL, PPUSCROLL or PPUADDR, a read of PPUSTATUS, or one PPU dot.     *)
(* After 28644 idle CPU cycles the PPU stands at scanline 240, dot 340.     *)

MaxPpuRegOps == 4

InitPpuReg ==
    /\ nes \in {NES_new(1), Warm(1, 28644, FALSE)}
    /\ InitBusHistory(nes, MaxPpuRegOps)

PpuCtrlWrite == BusWrite({8192}, {128, 3})

PpuScrollWrite == BusWrite({8197}, {255})

PpuAddrWrite == BusWrite({8198, 16382}, {255, 65})

PpuStatusRead == BusRead({8194, 16378})

\* One dot of the PPU around the start of the vertical blank.
PpuDot ==
    /\ pc = "bus"
    /\ hist.ops < hist.max
    /\ nes.ppu.scanline \in {240, 241}
    /\ nes' = tickPPU(nes)
    /\ last' = [kind |-> "dot", address |-> 0, value |-> 0, pre |-> nes, post |-> nes',
                prev |-> Previous]
    /\ hist' = [hist EXCEPT !.ops = @ + 1]
    /\ UNCHANGED <<pc, cycles, cpuCycles, i>>

NextPpuReg == PpuCtrlWrite \/ PpuScrollWrite \/ PpuAddrWrite \/ PpuStatusRead \/ PpuDot

SpecPpuReg == InitPpuReg /\ [][NextPpuReg]_vars

-----------------------------------------------------------------------------
(* Battery RAM at $6000-$7FFF under each supported mapper.  A step is a CPU *)
(* write to SRAM, a CPU write to $8000-$FFFF (bank selection) or a CPU read *)
(* of SRAM.  hist.shadow holds, per SRAM address, the value last written    *)
(* through the bus, or -1.                                                  *)

MaxSramOps == 4

Mappers == {0, 1, 2, 3, 4, 7}

SramAddresses == {24576, 28672, 32767}

SramValues == {90, 165}

BankAddresses == {32768, 32769, 40961, 57344, 65535}

BankValues == {0, 7, 22, 128, 255}

InitSram ==
    /\ \E mapper \in Mappers : nes = NES_of(Cartridge_for(mapper, 1))
    /\ pc = "sram"
    /\ cycles = 0
    /\ cpuCycles = 0
    /\ i = 0
    /\ last = [kind |-> "none", address |-> 0, value |-> 0, pre |-> nes, post |-> nes]
    /\ hist = [ops |-> 0, shadow |-> [a \in SramAddresses |-> -1]]

SramWrite ==
    /\ pc = "sram"
    /\ hist.ops < MaxSramOps
    /\ \E address \in SramAddresses, value \in SramValues :
         /\ nes' = writeByte(nes, address, value)
         /\ last' = [kind |-> "write", address |-> address, value |-> value,
                     pre |-> nes, post |-> nes']
         /\ hist' = [hist EXCEPT !.ops = @ + 1, !.shadow[address] = value]
    /\ UNCHANGED <<pc, cycles, cpuCycles, i>>

BankWrite ==
    /\ pc = "sram"
    /\ hist.ops < MaxSramOps
    /\ \E address \in BankAddresses, value \in BankValues :
         /\ nes' = writeByte(nes, address, value)
         /\ last' = [kind |-> "bank", address |-> address, value |-> value,
                     pre |-> nes, post |-> nes']
    /\ hist' = [hist EXCEPT !.ops = @ + 1]
    /\ UNCHANGED <<pc, cycles, cpuCycles, i>>

SramRead ==
    /\ pc = "sram"
    /\ hist.ops < MaxSramOps
    /\ \E address \in SramAddresses :
         \E r \in {readByte(nes, address)} :
            /\ nes' = r.nes
            /\ last' = [kind |-> "read", address |-> address, value |-> r.val,
                        pre |-> nes, post |-> nes']
    /\ hist' = [hist EXCEPT !.ops = @ + 1]
    /\ UNCHANGED <<pc, cycles, cpuCycles, i>>

NextSram == SramWrite \/ BankWrite \/ SramRead

SpecSram == InitSram /\ [][NextSram]_vars

-----------------------------------------------------------------------------
(* OAM DMA under emulate(): the images 9 and 10 start one DMA of page 2,   *)
(* the first with cpu->cycles even at the write, the second with it odd.   *)

DmaRoms == {9, 10}

InitDma ==
    /\ \E rom \in DmaRoms : nes = NES_new(rom)
    /\ pc = "done"
    /\ cycles = 0
    /\ cpuCycles = 0
    /\ i = 0
    /\ InitHistory(nes, MaxCycles, MaxCalls)

SpecDma == InitDma /\ [][Next]_vars

-----------------------------------------------------------------------------
(* The noise channel's timer and shift register: src/NES.cpp (tickAPU),    *)
(* src/memory.cpp (writeRegisterAPU, NES::NES).  The machine here is the   *)
(* Noise structure alone, nes.apu.noise; a step is the noise part of an    *)
(* even APU cycle or a write of $400E.  hist.clocks counts the clocks of   *)
(* the shift register while every clock so far was a mode-0 clock.         *)

MaxNoiseClocks == 32767

InitNoise ==
    /\ nes = [apu |-> [noise |-> Noise_new]]
    /\ pc = "noise"
    /\ cycles = 0
    /\ cpuCycles = 0
    /\ i = 0
    /\ last = [kind |-> "none"]
    /\ hist = [clocks |-> 0, pure |-> TRUE]

NoiseTimerTick ==
    /\ pc = "noise"
    /\ hist.pure => hist.clocks < MaxNoiseClocks
    /\ nes' = [nes EXCEPT !.apu.noise = tickNoiseTimer(@)]
    /\ last' = [kind |-> IF nes.apu.noise.timer_val = 0 THEN "clock" ELSE "wait"]
    /\ hist' = IF nes.apu.noise.timer_val # 0 THEN hist
               ELSE IF hist.pure /\ ~nes.apu.noise.mode
               THEN [hist EXCEPT !.clocks = @ + 1]
               ELSE [clocks |-> 0, pure |-> FALSE]
    /\ UNCHANGED <<pc, cycles, cpuCycles, i>>

NoisePeriodWrite ==
    /\ pc = "noise"
    /\ \E value \in {0, 128} :
         nes' = [nes EXCEPT !.apu.noise = writeNoisePeriod(@, value)]
    /\ last' = [kind |-> "write"]
    /\ UNCHANGED <<pc, cycles, cpuCycles, i, hist>>

NextNoise == NoiseTimerTick \/ NoisePeriodWrite

SpecNoise == InitNoise /\ [][NextNoise]_vars

-----------------------------------------------------------------------------
(* Sprite-zero hit under emulate(): image 11 on a cartridge whose CHR-ROM   *)
(* holds one solid tile (tile 0, every pixel 3), so that the zeroed name    *)
(* table is a non-transparent background and OAM entry 0 a solid sprite.   *)

\* CHR-ROM: the sixteen bytes of tile 0 are $FF.
SolidTile == [k \in 0..15 |-> 255]

\* CPU cycles from construction past dot 1 of the pre-render line of the
\* first rendered frame.
MaxHitCycles == 31100

InitHit ==
    /\ nes = NES_of([Cartridge_new(11) EXCEPT !.CHR = SolidTile])
    /\ pc = "done"
    /\ cycles = 0
    /\ cpuCycles = 0
    /\ i = 0
    /\ InitHistory(nes, MaxHitCycles, 1)

SpecHit == InitHit /\ [][Next]_vars

-----------------------------------------------------------------------------
(* The PPU's dot, scanline and frame counters.  The machine starts after    *)
(* construction (scanline 250, dot 340, frame 0); a step is one tickPPU or  *)
(* a CPU write to PPUCTRL or PPUMASK made while the PPU stands   *)
(* on the last-but-one dot of the pre-render line.  hist.dots counts the    *)
(* ticks since the frame counter last changed, hist.whole tells whether the *)
(* current frame began with such a change, last holds the counters before   *)
(* and after the step.                                                      *)

\* The frames 0 (the rest of the power-on frame), 1 and 2 are run.
MaxFrames == 3

FrameRegisters == {8192, 8193}
FrameValues == {0, 24}

Counters(ppu) ==
    [cycle |-> ppu.cycle, scanline |-> ppu.scanline, frame |-> ppu.frame, f |-> ppu.f,
     render |-> ppu.flag_show_background # 0 \/ ppu.flag_show_sprites # 0]

InitFrame ==
    /\ nes = NES_of(Cartridge_for(0, 1))
    /\ pc = "frame"
    /\ cycles = 0
    /\ cpuCycles = 0
    /\ i = 0
    /\ last = [kind |-> "none", pre |-> Counters(nes.ppu), post |-> Counters(nes.ppu)]
    /\ hist = [dots |-> 0, whole |-> FALSE, length |-> 0, wraps |-> 0]

FrameDot ==
    /\ pc = "frame"
    /\ nes.ppu.frame < MaxFrames
    /\ nes' = tickPPU(nes)
    /\ last' = [kind |-> "dot", pre |-> Counters(nes.ppu), post |-> Counters(nes'.ppu)]
    /\ hist' = IF nes'.ppu.frame # nes.ppu.frame
               THEN [dots |-> 0, whole |-> TRUE,
                     length |-> IF hist.whole THEN hist.dots + 1 ELSE 0,
                     wraps |-> hist.wraps + 1]
               ELSE [hist EXCEPT !.dots = @ + 1]
    /\ UNCHANGED <<pc, cycles, cpuCycles, i>>

FrameWrite ==
    /\ pc = "frame"
    /\ nes.ppu.scanline = 261
    /\ nes.ppu.cycle = 339
    /\ \E address \in FrameRegisters, value \in FrameValues :
         nes' = writeByte(nes, address, value)
    /\ last' = [kind |-> "write", pre |-> Counters(nes.ppu), post |-> Counters(nes'.ppu)]
    /\ UNCHANGED <<pc, cycles, cpuCycles, i, hist>>

NextFrame == FrameDot \/ FrameWrite

SpecFrame == InitFrame /\ [][NextFrame]_vars

-----------------------------------------------------------------------------
(* Sample emission, tickAPU in src/NES.cpp: a tick that takes the cycle     *)
(* counter from cycle1 to cycle2 pushes one sample to the ring buffer when  *)
(* int(cycle1 / SAMPLE_RATE) and int(cycle2 / SAMPLE_RATE) differ, with     *)
(* SAMPLE_RATE = CPU_FREQ / (44100.0 * 2.0).  The machine is the APU's      *)
(* cycle counter; a step is a run of up to SliceCycles ticks, hist.ticks    *)
(* and hist.samples count the ticks made and the samples pushed since the   *)
(* start, up to CPU_FREQ ticks.                                             *)

\* Samples per emulated second: 44100.0 * 2.0.
SamplesPerSecond == 88200

SamplesPerSecondMono == 44100

\* The cycles below 4176137 at which the double quotient cycle / SAMPLE_RATE
\* lies just under the whole number cycle * 88200 / CPU_FREQ.
SampleShortfalls == {596591, 1193182, 2386364}

\* floor(cycle * rate / CPU_FREQ) in 32-bit steps: rate = 3 * 168 * k.
ScaledCycle(cycle, k) ==
    LET third == CPU_FREQ \div 3
        r == cycle % third
        r1 == (r * 168) % third
    IN  (cycle \div third) * (168 * k) + ((r * 168) \div third) * k + (r1 * k) \div third

SampleStepMono(cycle) ==
    ScaledCycle(cycle, SamplesPerSecondMono \div 504)

\* int(cycle / SAMPLE_RATE)
SampleStep(cycle) ==
    ScaledCycle(cycle, SamplesPerSecond \div 504)
        - (IF cycle \in SampleShortfalls THEN 1 ELSE 0)

\* The samples pushed by n ticks from cycle counter cycle: one for each
\* tick whose s1 and s2 differ.
samplesPushed(cycle, n) ==
    Cardinality({c \in cycle .. cycle + n - 1 : SampleStep(c) # SampleStep(c + 1)})

SliceCycles == 1000

\* The cycle counter at the start of the second.
SampleStarts == {0, 19, 596000, 1193182, 2386000}

InitSample ==
    /\ nes \in {[apu |-> [cycle |-> c]] : c \in SampleStarts}
    /\ pc = "sample"
    /\ cycles = 0
    /\ cpuCycles = 0
    /\ i = 0
    /\ last = [kind |-> "none", pushed |-> 0]
    /\ hist = [ticks |-> 0, samples |-> 0]

SampleSlice ==
    /\ pc = "sample"
    /\ hist.ticks < CPU_FREQ
    /\ \E n \in {IF CPU_FREQ - hist.ticks < SliceCycles
                 THEN CPU_FREQ - hist.ticks ELSE SliceCycles} :
         \E pushed \in {samplesPushed(nes.apu.cycle, n)} :
            /\ nes' = [nes EXCEPT !.apu.cycle = @ + n]
            /\ last' = [kind |-> "slice", pushed |-> pushed]
            /\ hist' = [ticks |-> hist.ticks + n, samples |-> hist.samples + pushed]
    /\ UNCHANGED <<pc, cycles, cpuCycles, i>>

SpecSample == InitSample /\ [][SampleSlice]_vars

-----------------------------------------------------------------------------
(* The APU status register on the CPU bus: writes that load the length     *)
(* counters ($4003, $4007, $400B, $400F), the DMC sample length ($4013)    *)
(* and the channel enables ($4015), and reads of $4015.                    *)

MaxStatusOps == 3

StatusAddresses == {16387, 16391, 16395, 16399, 16403, 16405}
StatusValues == {8, 31}

InitStatus ==
    /\ nes = NES_new(1)
    /\ InitBusHistory(nes, MaxStatusOps)

StatusWrite == BusWrite(StatusAddresses, StatusValues)

StatusRead == BusRead({16405})

NextStatus == StatusWrite \/ StatusRead

SpecStatus == InitStatus /\ [][NextStatus]_vars

-----------------------------------------------------------------------------
(* A mapper-0 cartridge with 32 KiB of PRG-ROM on the CPU bus: writes to   *)
(* $8000-$FFFF and reads of PRG addresses in both 16 KiB windows.          *)

MaxNromOps == 3

NromWriteAddresses == {32768, 49152, 65535}
NromValues == {0, 1, 2, 255}
NromReadAddresses == {32768, 40960, 49148, 49152, 57344, 65532}

\* The machine NES::NES builds for the cartridge.
NromPowerOn == NES_of(Cartridge_for(0, 1))

InitNrom ==
    /\ nes = NromPowerOn
    /\ InitBusHistory(nes, MaxNromOps)

NromWrite == BusWrite(NromWriteAddresses, NromValues)

NromRead == BusRead(NromReadAddresses)

NextNrom == NromWrite \/ NromRead

SpecNrom == InitNrom /\ [][NextNrom]_vars

-----------------------------------------------------------------------------
(* The MMC3 scanline counter under emulate(): images 12, 13 and 14 write   *)
(* the latch ($C000), request the reload ($C001) and enable the IRQ        *)
(* ($E001) during the vertical blank of the power-on frame, with rendering *)
(* on; the run lasts past dot 280 of scanline 3 of the next frame.         *)

Mmc3Roms == {12, 13, 14}

MaxMmc3Cycles == 1750

InitMmc3Counter ==
    /\ \E rom \in Mmc3Roms : nes = NES_new(rom)
    /\ pc = "done"
    /\ cycles = 0
    /\ cpuCycles = 0
    /\ i = 0
    /\ InitHistory(nes, MaxMmc3Cycles, 1)

SpecMmc3 == InitMmc3Counter /\ [][Next]_vars

-----------------------------------------------------------------------------
(* Program start: main (src/cpu.cpp), NES::NES (src/memory.cpp) and        *)
(* Cartridge::Cartridge (src/NES.h).  The machine is the outcome of the    *)
(* construction; pc is the position in main.  The inputs are the state of  *)
(* the ROM file, the mapper id of its header and whether the audio and     *)
(* video devices initialise.  hist counts the calls of emulate() and       *)
(* remembers a use of nes->apu, nes->ppu, nes->cpu or nes->mapper made     *)
(* while NES::NES had not assigned them; last is the process exit.         *)

RomFiles == {"ok", "missing", "short header", "bad magic", "short PRG", "short CHR"}

MapperIds == {0, 1, 2, 3, 4, 5, 7}

SupportedMappers == {0, 1, 2, 3, 4, 7}

EXIT_SUCCESS == 0

EXIT_FAILURE == 1

\* Passes of main's loop before the window is closed.
MaxLoopPasses == 2

InitStartup ==
    /\ \E file \in RomFiles, id \in MapperIds, audio \in BOOLEAN, video \in BOOLEAN :
         nes = [file |-> file, mapperId |-> id, audio |-> audio, video |-> video,
                reported |-> FALSE, built |-> FALSE]
    /\ pc = "main"
    /\ cycles = 0
    /\ cpuCycles = 0
    /\ i = 0
    /\ last = [exited |-> FALSE, status |-> EXIT_SUCCESS]
    /\ hist = [emulateCalls |-> 0, touched |-> FALSE, passes |-> 0]

\* new NES(path, SRAM_path).  Cartridge::Cartridge reports a file it cannot
\* read and returns; it does not write the initialized member NES::NES then
\* tests, so the test reads an indeterminate value.  NES::NES builds the
\* mapper, CPU, APU and PPU only past that test and for a supported mapper.
Construct ==
    /\ pc = "main"
    /\ \E initialized \in BOOLEAN :
         nes' = [nes EXCEPT
                   !.reported = nes.file # "ok"
                                \/ (initialized /\ nes.mapperId \notin SupportedMappers),
                   !.built = initialized /\ nes.mapperId \in SupportedMappers]
    /\ pc' = "audio"
    /\ UNCHANGED <<cycles, cpuCycles, i, last, hist>>

\* Pa_Initialize and Pa_OpenStream(..., &nes->apu->ring_buf).
OpenAudio ==
    /\ pc = "audio"
    /\ IF nes.audio
       THEN /\ pc' = "video"
            /\ hist' = [hist EXCEPT !.touched = @ \/ ~nes.built]
            /\ UNCHANGED last
       ELSE /\ pc' = "exit"
            /\ last' = [exited |-> TRUE, status |-> EXIT_FAILURE]
            /\ UNCHANGED hist
    /\ UNCHANGED <<nes, cycles, cpuCycles, i>>

\* glfwInit and glfwCreateWindow.
OpenVideo ==
    /\ pc = "video"
    /\ IF nes.video
       THEN pc' = "loop" /\ UNCHANGED last
       ELSE pc' = "exit" /\ last' = [exited |-> TRUE, status |-> EXIT_FAILURE]
    /\ UNCHANGED <<nes, cycles, cpuCycles, i, hist>>

\* One pass of main's loop: nes->ppu->frame is read and emulate(nes, dt)
\* called.  On a machine whose parts were never assigned the behaviour is
\* undefined: the process dies or the call goes on.
LoopPass ==
    /\ pc = "loop"
    /\ hist.passes < MaxLoopPasses
    /\ hist' = [emulateCalls |-> hist.emulateCalls + 1,
                touched |-> hist.touched \/ ~nes.built,
                passes |-> hist.passes + 1]
    /\ \/ pc' = "loop" /\ UNCHANGED last
       \/ ~nes.built /\ pc' = "exit" /\ last' = [exited |-> TRUE, status |-> EXIT_FAILURE]
    /\ UNCHANGED <<nes, cycles, cpuCycles, i>>

\* The window is closed: main leaves the loop and returns EXIT_SUCCESS.
Quit ==
    /\ pc = "loop"
    /\ pc' = "exit"
    /\ last' = [exited |-> TRUE, status |-> EXIT_SUCCESS]
    /\ hist' = [hist EXCEPT !.touched = @ \/ ~nes.built]
    /\ UNCHANGED <<nes, cycles, cpuCycles, i>>

NextStartup == Construct \/ OpenAudio \/ OpenVideo \/ LoopPass \/ Quit

SpecStartup == InitStartup /\ [][NextStartup]_vars

-----------------------------------------------------------------------------
(* Pointer reads.  One instruction that reads a two-byte pointer lies in   *)
(* RAM at $0600: JMP (abs), LDA (zp,X) or LDA (zp),Y.  Every other RAM     *)
(* byte holds a pattern below $1F, so that each pointer leads into RAM and *)
(* the bytes at p + 1 and at the start of p's page differ.                 *)

PointerBudget == 2

PointerPC == 1536

PointerByte(a) == (a + 5 * (a \div 256)) % 31

PointerRAM(opcode, lo, hi) ==
    [a \in 0..2047 |->
        IF a = PointerPC THEN opcode
        ELSE IF a = PointerPC + 1 THEN lo
        ELSE IF a = PointerPC + 2 THEN hi
        ELSE PointerByte(a)]

PointerOpcodes == {108, 161, 177}
PointerLows == {0, 16, 254, 255}
PointerHighs == {0, 2, 7}
PointerIndexes == {0, 1, 255}

InitPointer ==
    \E opcode \in PointerOpcodes, lo \in PointerLows, hi \in PointerHighs,
       x \in PointerIndexes, y \in {0, 1}, st \in {0, 1} :
        /\ nes = [Warm(1, 1218, FALSE) EXCEPT
                    !.RAM = PointerRAM(opcode, lo, hi),
                    !.cpu.PC = PointerPC,
                    !.cpu.A = 204, !.cpu.X = x, !.cpu.Y = y,
                    !.cpu.flags = 36,
                    !.cpu.stall = st]
        /\ pc = "done"
        /\ cycles = 0
        /\ cpuCycles = 0
        /\ i = 0
        /\ InitHistory(nes, PointerBudget, 1)

SpecPointer == InitPointer /\ [][Next]_vars

-----------------------------------------------------------------------------
(* ADC and SBC.  The machine is the CPU and the RAM byte the instruction   *)
(* reads (src/cpu.cpp, adc and sbc); the inputs are the accumulator, the   *)
(* operand, the carry and the decimal flag.  last keeps the inputs of the  *)
(* instruction applied.                                                    *)

AluOperandAddress == 16

AluBytes == 0..255

AluOperands == 0..255

InitAlu ==
    \E a \in AluBytes, b \in AluOperands, c \in {0, 1}, d \in {0, 1} :
        /\ nes = [cpu |-> [CPU_new EXCEPT !.A = a, !.flags = 32 + c + 8 * d],
                  RAM |-> Put(ZeroArray, AluOperandAddress, b)]
        /\ pc = "alu"
        /\ cycles = 0
        /\ cpuCycles = 0
        /\ i = 0
        /\ last = [kind |-> "none", a |-> a, b |-> b, c |-> c, d |-> d]
        /\ hist = 0

AluAdc ==
    /\ pc = "alu"
    /\ nes' = adc(nes, AluOperandAddress)
    /\ last' = [last EXCEPT !.kind = "adc"]
    /\ pc' = "done"
    /\ UNCHANGED <<cycles, cpuCycles, i, hist>>

AluSbc ==
    /\ pc = "alu"
    /\ nes' = sbc(nes, AluOperandAddress)
    /\ last' = [last EXCEPT !.kind = "sbc"]
    /\ pc' = "done"
    /\ UNCHANGED <<cycles, cpuCycles, i, hist>>

NextAlu == AluAdc \/ AluSbc

SpecAlu == InitAlu /\ [][NextAlu]_vars

-----------------------------------------------------------------------------
(* The APU frame sequencer (tickAPU, src/NES.cpp).  The machine starts     *)
(* three cycles before a 240 Hz boundary, five or more boundaries after    *)
(* power-on; the program had put the sequencer in 5-step mode with the     *)
(* frame IRQ inhibited and left the channels alone, so frame_val is any    *)
(* step of that mode.  The program then writes the channel registers and   *)
(* $4017 in the order of SequencerScript, and the APU is ticked across the *)
(* boundary.  last keeps the machine before each step.                     *)

MaxSequencerTicks == 4

\* Three cycles before the fifth and the sixth boundary.
SequencerStarts == {37284, 44742}

SequencerFlags == {32, 36}

\* $4015, pulse 1 ($4000-$4003), triangle ($4008, $400B), noise ($400C,
\* $400F), then $4017: the values each write may carry.
SequencerScript ==
    << [address |-> 16405, values |-> {15}],
       [address |-> 16384, values |-> {3, 35}],
       [address |-> 16385, values |-> {0, 129}],
       [address |-> 16386, values |-> {64}],
       [address |-> 16387, values |-> {8}],
       [address |-> 16392, values |-> {5, 133}],
       [address |-> 16395, values |-> {8}],
       [address |-> 16396, values |-> {2, 34}],
       [address |-> 16399, values |-> {8}],
       [address |-> 16407, values |-> {0, 64, 128, 192}] >>

InitSequencer ==
    \E k \in SequencerStarts, v \in 0..4, fl \in SequencerFlags :
        /\ nes = [Warm(1, k, FALSE) EXCEPT
                    !.cpu.flags = fl,
                    !.apu.frame_period = 5,
                    !.apu.frame_IRQ = FALSE,
                    !.apu.frame_val = v]
        /\ pc = "write"
        /\ cycles = 0
        /\ cpuCycles = 0
        /\ i = 1
        /\ last = [kind |-> "none", pre |-> nes]
        /\ hist = 0

\* The next write of the script: writeByte at an APU register.
SequencerWrite ==
    /\ pc = "write"
    /\ \E value \in SequencerScript[i].values :
         nes' = writeByte(nes, SequencerScript[i].address, value)
    /\ last' = [kind |-> "write", pre |-> nes]
    /\ IF i < Len(SequencerScript)
       THEN i' = i + 1 /\ pc' = "write"
       ELSE i' = 0 /\ pc' = "tick"
    /\ UNCHANGED <<cycles, cpuCycles, hist>>

SequencerTick ==
    /\ pc = "tick"
    /\ i < MaxSequencerTicks
    /\ nes' = tickAPU(nes)
    /\ last' = [kind |-> "tick", pre |-> nes]
    /\ i' = i + 1
    /\ UNCHANGED <<pc, cycles, cpuCycles, hist>>

NextSequencer == SequencerWrite \/ SequencerTick

SpecSequencer == InitSequencer /\ [][NextSequencer]_vars

-----------------------------------------------------------------------------
(* The frame sequencer from power-on.  The machine is as NES::NES and the  *)
(* ticks since left it, no register written; the program then writes the   *)
(* registers of SequencerScript, or writes nothing, and the APU is ticked. *)

\* Power-on, and three cycles before the first and the fifth boundary.
PowerOnStarts == {0, 7455, 37284}

InitPowerOn ==
    \E k \in PowerOnStarts, fl \in SequencerFlags, to \in {"write", "tick"} :
        /\ nes = [Warm(1, k, FALSE) EXCEPT !.cpu.flags = fl]
        /\ pc = to
        /\ cycles = 0
        /\ cpuCycles = 0
        /\ i = IF to = "write" THEN 1 ELSE 0
        /\ last = [kind |-> "none", pre |-> nes]
        /\ hist = 0

SpecPowerOn == InitPowerOn /\ [][NextSequencer]_vars

-----------------------------------------------------------------------------
(* The unused APU registers $4009 and $400D on the CPU bus, with the       *)
(* registers next to them in writeRegisterAPU's switch: $4010 (DMC) and    *)
(* $400E (noise mode and period).                                          *)

MaxUnusedOps == 3

UnusedAddresses == {16393, 16397, 16398, 16400}
UnusedValues == {0, 79, 133}

InitUnused ==
    /\ nes = NES_new(1)
    /\ InitBusHistory(nes, MaxUnusedOps)

UnusedWrite == BusWrite(UnusedAddresses, UnusedValues)

SpecUnused == InitUnused /\ [][UnusedWrite]_vars

-----------------------------------------------------------------------------
(* Pixels and the sprite-zero flag.  The PPU stands at a dot of a visible, *)
(* a post-render or the pre-render line, with a mask, a background shift   *)
(* register and sprite slots as a frame can have left them, and is ticked  *)
(* (tickPPU, src/NES.cpp).  last keeps the machine before the tick.        *)

MaxPixelDots == 2

PixelLines == {10, 239, 240, 261}
PixelCycles == {0, 7, 8, 253, 254, 255}

\* $2001: every combination of the two show and the two left-column bits.
PixelMasks == {2 * b : b \in 0..15}

\* The background nibbles: transparent, transparent of palette 1, opaque.
PixelBackgrounds == {0, 3, 4}

SolidRow == [j \in 1..8 |-> 3]
ClearRow == [j \in 1..8 |-> 0]

\* The sprite slots of the line: none; OAM entry 0, solid; OAM entry 5,
\* solid; entry 0 with a transparent row in front of entry 5; entry 0 with
\* a transparent row alone.
PixelSlots ==
    { [cnt |-> 0, idx |-> <<0, 0>>, rows |-> <<ClearRow, ClearRow>>],
      [cnt |-> 1, idx |-> <<0, 0>>, rows |-> <<SolidRow, ClearRow>>],
      [cnt |-> 1, idx |-> <<5, 0>>, rows |-> <<SolidRow, ClearRow>>],
      [cnt |-> 2, idx |-> <<0, 5>>, rows |-> <<ClearRow, SolidRow>>],
      [cnt |-> 1, idx |-> <<0, 0>>, rows |-> <<ClearRow, ClearRow>>] }

PixelPPU(ppu, line, cycle, mask, background, slots, flag) ==
    [writePPUMask(ppu, mask) EXCEPT
        !.scanline = line,
        !.cycle = cycle,
        !.tile_data = [k \in 1..16 |-> background],
        !.sprite_cnt = slots.cnt,
        !.sprite_idx = [k \in 1..8 |-> IF k <= 2 THEN slots.idx[k] ELSE 0],
        !.sprite_patterns = [k \in 1..8 |-> IF k <= 2 THEN slots.rows[k] ELSE ClearRow],
        !.sprite_pos = [k \in 1..8 |-> IF cycle < 128 THEN 0 ELSE 250],
        !.flag_sprite_zero_hit = flag,
        !.flag_sprite_overflow = flag]

InitPixel ==
    \E line \in PixelLines, cycle \in PixelCycles, mask \in PixelMasks,
       background \in PixelBackgrounds, slots \in PixelSlots, flag \in {0, 1} :
        /\ nes = [NES_of(Cartridge_for(0, 1)) EXCEPT
                    !.ppu = PixelPPU(@, line, cycle, mask, background, slots, flag)]
        /\ pc = "pixel"
        /\ cycles = 0
        /\ cpuCycles = 0
        /\ i = 0
        /\ last = [kind |-> "none", pre |-> nes]
        /\ hist = 0

PixelDot ==
    /\ pc = "pixel"
    /\ i < MaxPixelDots
    /\ nes' = tickPPU(nes)
    /\ last' = [kind |-> "dot", pre |-> nes]
    /\ i' = i + 1
    /\ UNCHANGED <<pc, cycles, cpuCycles, hist>>

SpecPixel == InitPixel /\ [][PixelDot]_vars

-----------------------------------------------------------------------------
(* Sprite evaluation.  The PPU stands at dot 250 of a line with an OAM the *)
(* program has filled, and is ticked over dot 257 of that line and of the  *)
(* next; at dot 300 the program may write $2001.  last keeps the machine   *)
(* before the step.                                                        *)

MaxSpriteDots == 400

SpriteLines == {20, 238, 239, 260, 261}

\* $2001: rendering off, background and sprites on.
SpriteMasks == {0, 24}

\* The dot of a line at which the program's write to $2001 lands.
SpriteWriteDot == 300

\* The OAM entries the program has put on the line: three, eight, nine and
\* none; two further entries lie ten lines higher.
SpriteSets ==
    { {3, 7, 40}, {1, 3, 5, 7, 9, 11, 13, 15}, {0, 2, 4, 6, 8, 10, 12, 14, 63}, {} }

TallSprites == {20, 21}

\* OAM: entry s has y 'top' if s is in S, 'top' - 10 if in TallSprites, and
\* lies a hundred lines away otherwise; tile s, attributes with the
\* priority bit of odd multiples of 3, x = 4 * s.
SpriteOam(S, top) ==
    [a \in 0..255 |->
        LET s == a \div 4
        IN  CASE a % 4 = 0 -> IF s \in S THEN top
                              ELSE IF s \in TallSprites /\ top >= 10 THEN top - 10
                              ELSE (top + 100) % 256
              [] a % 4 = 1 -> s
              [] a % 4 = 2 -> IF s % 3 = 0 THEN 32 ELSE 0
              [] OTHER -> 4 * s]

InitSprites ==
    \E line \in SpriteLines, S \in SpriteSets, size \in {0, 1}, mask \in SpriteMasks :
        /\ nes = [NES_of(Cartridge_for(0, 1)) EXCEPT
                    !.ppu = [writePPUMask(@, mask) EXCEPT
                                !.scanline = line,
                                !.cycle = 250,
                                !.flag_sprite_size = size,
                                !.oam_tbl = SpriteOam(S, IF line < 239 THEN line + 1
                                                         ELSE IF line = 239 THEN 239
                                                         ELSE 0)]]
        /\ pc = "sprites"
        /\ cycles = 0
        /\ cpuCycles = 0
        /\ i = 0
        /\ last = [kind |-> "none", pre |-> nes]
        /\ hist = 0

SpriteDot ==
    /\ pc = "sprites"
    /\ i < MaxSpriteDots
    /\ nes' = tickPPU(nes)
    /\ last' = [kind |-> "dot", pre |-> nes]
    /\ i' = i + 1
    /\ UNCHANGED <<pc, cycles, cpuCycles, hist>>

SpriteMaskWrite ==
    /\ pc = "sprites"
    /\ nes.ppu.cycle = SpriteWriteDot
    /\ last.kind = "dot"
    /\ \E mask \in SpriteMasks : nes' = writeByte(nes, 8193, mask)
    /\ last' = [kind |-> "write", pre |-> nes]
    /\ UNCHANGED <<pc, cycles, cpuCycles, i, hist>>

NextSprites == SpriteDot \/ SpriteMaskWrite

SpecSprites == InitSprites /\ [][NextSprites]_vars

-----------------------------------------------------------------------------
(* The VRAM address registers v and t.  The PPU stands at dot 255 of the   *)
(* pre-render line or of a visible line, rendering on or off; the program  *)
(* writes $2000, $2005, $2006 and $2007 and reads $2007 at dots 255 and    *)
(* 290, and the PPU is ticked over the increments of dot 256, the          *)
(* horizontal copy of dot 257 and the vertical copies of dots 280..304.    *)

MaxVramOps == 4

MaxVramDots == 40

VramLines == {100, 261}

VramBusDots == {255, 290}

\* The writes the program may make: address and value.
VramWrites ==
    { <<8192, 7>>, <<8192, 0>>, <<8197, 255>>, <<8197, 0>>,
      <<8198, 63>>, <<8198, 255>>, <<8199, 0>> }

InitVram ==
    \E line \in VramLines, mask \in {0, 24} :
        /\ nes = [NES_of(Cartridge_for(0, 1)) EXCEPT
                    !.ppu = [writePPUMask(@, mask) EXCEPT !.scanline = line, !.cycle = 255]]
        /\ pc = "vram"
        /\ cycles = 0
        /\ cpuCycles = 0
        /\ i = 0
        /\ last = [kind |-> "none", address |-> 0, value |-> 0]
        /\ hist = [ops |-> 0]

VramWrite ==
    /\ pc = "vram"
    /\ hist.ops < MaxVramOps
    /\ nes.ppu.cycle \in VramBusDots
    /\ \E w \in VramWrites :
         /\ nes' = writeByte(nes, w[1], w[2])
         /\ last' = [kind |-> "write", address |-> w[1], value |-> w[2]]
    /\ hist' = [ops |-> hist.ops + 1]
    /\ UNCHANGED <<pc, cycles, cpuCycles, i>>

VramRead ==
    /\ pc = "vram"
    /\ hist.ops < MaxVramOps
    /\ nes.ppu.cycle \in VramBusDots
    /\ \E r \in {readByte(nes, 8199)} :
         /\ nes' = r.nes
         /\ last' = [kind |-> "read", address |-> 8199, value |-> r.val]
    /\ hist' = [ops |-> hist.ops + 1]
    /\ UNCHANGED <<pc, cycles, cpuCycles, i>>

VramDot ==
    /\ pc = "vram"
    /\ i < MaxVramDots
    /\ nes' = tickPPU(nes)
    /\ last' = [kind |-> "dot", address |-> 0, value |-> 0]
    /\ i' = i + 1
    /\ UNCHANGED <<pc, cycles, cpuCycles, hist>>

NextVram == VramWrite \/ VramRead \/ VramDot

SpecVram == InitVram /\ [][NextVram]_vars

-----------------------------------------------------------------------------
(* The controller ports.  The host has latched the buttons of both         *)
(* controllers; the program writes the strobe at $4016 and reads $4016 and *)
(* $4017.  hist counts the reads of each port since the strobe last fell;  *)
(* last is the access just made.                                           *)

\* Reads of both ports together after one strobe.
MaxControllerReads == 258

\* Controller 1: A, Select, Down, Right; or B alone.  Controller 2: the
\* other six of the first, or all eight.
ControllerButtons == {<<165, 90>>, <<2, 255>>}

InitController ==
    \E b \in ControllerButtons :
        /\ nes = [NES_new(1) EXCEPT !.controller1.buttons = b[1],
                                    !.controller2.buttons = b[2]]
        /\ pc = "pad"
        /\ cycles = 0
        /\ cpuCycles = 0
        /\ i = 0
        /\ last = [kind |-> "none", address |-> 0, value |-> 0]
        /\ hist = [strobed |-> FALSE, n1 |-> 0, n2 |-> 0]

\* writeByte($4016, value): strobe of both controllers.
ControllerStrobe ==
    /\ pc = "pad"
    /\ \E value \in {0, 1} :
         /\ nes' = writeByte(nes, 16406, value)
         /\ last' = [kind |-> "write", address |-> 16406, value |-> value]
         /\ hist' = IF value = 1 THEN [strobed |-> FALSE, n1 |-> 0, n2 |-> 0]
                     ELSE [hist EXCEPT !.strobed = @ \/ nes.controller1.strobe % 2 = 1]
    /\ UNCHANGED <<pc, cycles, cpuCycles, i>>

\* readByte($4016) or readByte($4017).
ControllerRead ==
    /\ pc = "pad"
    /\ hist.n1 + hist.n2 < MaxControllerReads
    /\ \E address \in {16406, 16407} :
         \E r \in {readByte(nes, address)} :
            /\ nes' = r.nes
            /\ last' = [kind |-> "read", address |-> address, value |-> r.val]
            /\ hist' = IF nes.controller1.strobe % 2 = 1 THEN hist
                       ELSE IF address = 16406 THEN [hist EXCEPT !.n1 = @ + 1]
                       ELSE [hist EXCEPT !.n2 = @ + 1]
    /\ UNCHANGED <<pc, cycles, cpuCycles, i>>

NextController == ControllerStrobe \/ ControllerRead

SpecController == InitController /\ [][NextController]_vars

-----------------------------------------------------------------------------
(* The iNES header: Cartridge::Cartridge (src/NES.h) on a readable file    *)
(* whose control bytes are ctrl1 and ctrl2, and the name table the loaded  *)
(* mirror mode selects for a PPU address (mirrorAddress, src/memory.cpp).  *)

HeaderBytes == 0..255

\* ctrl2: the high nibble of the mapper id.
HeaderHighs == {0, 64}

\* The fields Cartridge::Cartridge takes from the control bytes.
Cartridge_header(ctrl1, ctrl2) ==
    [mapper |-> U8(BitOr(ctrl1 \div 16, (ctrl2 \div 16) * 16)),
     mirror |-> U8(BitOr(ctrl1 % 2, Bit(ctrl1, 3) * 2)),
     battery_present |-> Bit(ctrl1, 1),
     trainer_present |-> BitAnd(ctrl1, 4) = 4]

\* The start of the four name tables in the PPU's address space.
NameTables == {8192, 9216, 10240, 11264}

InitLoader ==
    \E ctrl1 \in HeaderBytes, ctrl2 \in HeaderHighs :
        /\ nes = [ctrl1 |-> ctrl1, ctrl2 |-> ctrl2, loaded |-> FALSE,
                  cartridge |-> [mapper |-> 0, mirror |-> 0, battery_present |-> 0,
                                 trainer_present |-> FALSE]]
        /\ pc = "load"
        /\ cycles = 0
        /\ cpuCycles = 0
        /\ i = 0
        /\ last = [kind |-> "none", address |-> 0, mirrored |-> 0]
        /\ hist = 0

LoaderLoad ==
    /\ pc = "load"
    /\ nes' = [nes EXCEPT !.loaded = TRUE,
                          !.cartridge = Cartridge_header(nes.ctrl1, nes.ctrl2)]
    /\ pc' = "ppu"
    /\ last' = [kind |-> "load", address |-> 0, mirrored |-> 0]
    /\ UNCHANGED <<cycles, cpuCycles, i, hist>>

\* A PPU access of a name table: mirrorAddress with the cartridge's mode.
LoaderNameTable ==
    /\ pc = "ppu"
    /\ \E address \in NameTables :
         last' = [kind |-> "ppu", address |-> address,
                  mirrored |-> mirrorAddress(nes.cartridge.mirror, address)]
    /\ UNCHANGED <<nes, pc, cycles, cpuCycles, i, hist>>

NextLoader == LoaderLoad \/ LoaderNameTable

SpecLoader == InitLoader /\ [][NextLoader]_vars


-----------------------------------------------------------------------------
(* Bank switching over cartridges of every size.  The machine holds a      *)
(* cartridge of one of the supported mappers with PrgBanks 16 KiB PRG      *)
(* banks and ChrBanks 8 KiB CHR banks; one step is a CPU write to          *)
(* $8000-$FFFF or a mapper read, which records in last the array and the   *)
(* index the read uses.                                                    *)

MaxBankWrites == 5

PrgBanks == {1, 2, 8, 16}

ChrBanks == {1, 2, 4}

BankWrites(mapper) ==
    IF mapper = 1
    THEN {32768, 40960, 57344} \X {0, 1}
    ELSE {32768, 32769, 65535} \X {0, 3, 6, 7, 255}

BankReads == {0, 4096, 8191, 32768, 49151, 49152, 65535}

\* The element of cartridge->CHR or cartridge->PRG that Mapper::read(address)
\* returns, for address below $2000 or from $8000.
readIndex(m, address) ==
    LET mp == m.mapper
        a == address - 32768
    IN  CASE m.cartridge.mapper = 4 ->
               IF address < 8192
               THEN [array |-> "CHR",
                     index |-> mp.chr_offsets[(address \div 1024) + 1] + (address % 1024)]
               ELSE [array |-> "PRG",
                     index |-> mp.prg_offsets[(a \div 8192) + 1] + (a % 8192)]
          [] m.cartridge.mapper = 1 ->
               IF address < 8192
               THEN [array |-> "CHR",
                     index |-> mp.chr_offsets[(address \div 4096) + 1] + (address % 4096)]
               ELSE [array |-> "PRG",
                     index |-> mp.prg_offsets[(a \div 16384) + 1] + (a % 16384)]
          [] m.cartridge.mapper = 0 \/ m.cartridge.mapper = 2 ->
               IF address < 8192 THEN [array |-> "CHR", index |-> address]
               ELSE IF address >= 49152
               THEN [array |-> "PRG", index |-> mp.prg_bank2 * 16384 + (address - 49152)]
               ELSE [array |-> "PRG", index |-> mp.prg_bank1 * 16384 + a]
          [] m.cartridge.mapper = 3 ->
               IF address < 8192
               THEN [array |-> "CHR", index |-> mp.chr_bank * 8192 + address]
               ELSE IF address >= 49152
               THEN [array |-> "PRG", index |-> mp.prg_bank2 * 16384 + (address - 49152)]
               ELSE [array |-> "PRG", index |-> mp.prg_bank1 * 16384 + a]
          [] m.cartridge.mapper = 7 ->
               IF address < 8192 THEN [array |-> "CHR", index |-> address]
               ELSE [array |-> "PRG", index |-> mp.prg_bank * 32768 + a]

InitBanks ==
    /\ \E mapper \in SupportedMappers, prg \in PrgBanks, chr \in ChrBanks :
         nes = NES_of([Cartridge_for(mapper, 1) EXCEPT !.prg_size = prg * 16384,
                                                      !.chr_size = chr * 8192])
    /\ pc = "banks"
    /\ cycles = 0
    /\ cpuCycles = 0
    /\ i = 0
    /\ last = [kind |-> "none", address |-> 0, array |-> "PRG", index |-> 0]
    /\ hist = 0

BanksWrite ==
    /\ pc = "banks"
    /\ hist < MaxBankWrites
    /\ \E w \in BankWrites(nes.cartridge.mapper) :
         /\ nes' = writeByte(nes, w[1], w[2])
         /\ last' = [kind |-> "write", address |-> w[1], array |-> "PRG", index |-> 0]
    /\ hist' = hist + 1
    /\ UNCHANGED <<pc, cycles, cpuCycles, i>>

BanksRead ==
    /\ pc = "banks"
    /\ \E address \in BankReads :
         last' = [kind |-> "read", address |-> address,
                  array |-> readIndex(nes, address).array,
                  index |-> readIndex(nes, address).index]
    /\ UNCHANGED <<nes, pc, cycles, cpuCycles, i, hist>>

NextBanks == BanksWrite \/ BanksRead

SpecBanks == InitBanks /\ [][NextBanks]_vars

-----------------------------------------------------------------------------
(* MMC1 from power-on.  The machine holds a freshly constructed mapper-1   *)
(* cartridge of Mmc1PrgBanks 16 KiB PRG banks; one step is a CPU write to   *)
(* $8000-$FFFF or a CPU read of $C000-$FFFF.  hist.control says that a     *)
(* completed serial load has written the control register since power-on,  *)
(* hist.loads counts the completed loads of the other registers.           *)

MaxPowerOnWrites == 6

Mmc1PrgBanks == {2, 4, 16}

Mmc1LoadAddresses == {32768, 40960, 49152, 57344}

Mmc1VectorReads == {49152, 65530, 65532, 65535}

InitMmc1PowerOn ==
    /\ \E prg \in Mmc1PrgBanks :
         nes = NES_of([Cartridge_for(1, 1) EXCEPT !.prg_size = prg * 16384])
    /\ pc = "mmc1 power-on"
    /\ cycles = 0
    /\ cpuCycles = 0
    /\ i = 0
    /\ last = [kind |-> "none", address |-> 0, value |-> 0, index |-> 0]
    /\ hist = [ops |-> 0, control |-> FALSE, loads |-> 0]

\* A write.  With bit 7 clear, the fifth of a load (shift_reg bit 0 set
\* before it) writes the register its address selects; with bit 7 set it
\* restarts the load.
Mmc1PowerOnWrite ==
    /\ pc = "mmc1 power-on"
    /\ hist.ops < MaxPowerOnWrites
    /\ \E address \in Mmc1LoadAddresses, value \in {0, 1, 128} :
         /\ nes' = writeByte(nes, address, value)
         /\ last' = [kind |-> "write", address |-> address, value |-> value, index |-> 0]
         /\ hist' = [ops |-> hist.ops + 1,
                     control |-> hist.control \/
                                 (value < 128 /\ nes.mapper.shift_reg % 2 = 1 /\ address <= 40959),
                     loads |-> IF value < 128 /\ nes.mapper.shift_reg % 2 = 1 /\ address > 40959
                               THEN hist.loads + 1 ELSE hist.loads]
    /\ UNCHANGED <<pc, cycles, cpuCycles, i>>

Mmc1PowerOnRead ==
    /\ pc = "mmc1 power-on"
    /\ \E address \in Mmc1VectorReads :
         /\ last' = [kind |-> "read", address |-> address,
                     value |-> readByte(nes, address).val,
                     index |-> readIndex(nes, address).index]
         /\ nes' = readByte(nes, address).nes
    /\ UNCHANGED <<pc, cycles, cpuCycles, i, hist>>

NextMmc1PowerOn == Mmc1PowerOnWrite \/ Mmc1PowerOnRead

SpecMmc1PowerOn == InitMmc1PowerOn /\ [][NextMmc1PowerOn]_vars

-----------------------------------------------------------------------------
(* emulate(nes, seconds) over its argument.  A request is the real number  *)
(* CPU_FREQ * seconds, given by its integer part 'whole' and by whether its *)
(* fraction is at least one half.  emulate converts CPU_FREQ * seconds +   *)
(* 0.5 to int: the conversion truncates when the result fits an int and is *)
(* undefined otherwise; the outcomes modelled for it are the two that      *)
(* hardware conversions give, INT_MIN (x86) and INT_MAX (saturating).  The *)
(* machine runs one call on a program that spins, one that stays on an     *)
(* unofficial opcode, one that starts a DMC sample and one that starts an  *)
(* OAM DMA.                                                                *)

INT_MAX == 2147483647
INT_MIN == -2147483647 - 1

\* CPU steps are explored while fewer than MaxBudgetTicks cycles were consumed.
MaxBudgetTicks == 60

BudgetWholes == {0, 1, 2, 9, 40, INT_MAX}

BudgetRequests == [whole : BudgetWholes, half : BOOLEAN]

BudgetScenarios == {<<1, 0, FALSE>>, <<15, 0, FALSE>>, <<8, 0, FALSE>>, <<9, 0, FALSE>>}

\* int cycles = static_cast<int>(CPU_FREQ * seconds + 0.5);
cyclesFor(request) ==
    IF ~request.half THEN {request.whole}
    ELSE IF request.whole < INT_MAX THEN {request.whole + 1}
    ELSE {INT_MIN, INT_MAX}

InitBudget ==
    \E sc \in BudgetScenarios, request \in BudgetRequests :
        /\ nes = Warm(sc[1], sc[2], sc[3])
        /\ pc = "done"
        /\ cycles = 0
        /\ cpuCycles = 0
        /\ i = 0
        /\ last = [kind |-> "none", took |-> "none", opcode |-> 0, nmiWas |-> FALSE,
                   irqDroppedWas |-> FALSE, cpuCycles |-> 0, pre |-> nes, entry |-> nes,
                   post |-> nes]
        /\ \E budget \in cyclesFor(request) :
             hist = [budget |-> budget, callsLeft |-> 1, start |-> nes.apu.cycle,
                     ppuTicks |-> 0, apuTicks |-> 0, stallSteps |-> 0,
                     nmiPending |-> FALSE, irqDropped |-> FALSE, ctrl |-> NoCtrl,
                     request |-> request]

BudgetStep == hist.apuTicks < MaxBudgetTicks /\ (CpuStall \/ CpuInstr)

NextBudget == Emulate \/ BudgetStep \/ PpuTick \/ ApuTick

SpecBudget == InitBudget /\ [][NextBudget]_vars
-----------------------------------------------------------------------------
(* Properties.                                                             *)

\* C1: every pass of emulate()'s loop is one CPU step of N >= 1 cycles, then
\* exactly 3N PPU ticks, then exactly N APU ticks, in that order; at every
\* pass boundary the PPU has ticked 3 times as often as the APU, and the APU
\* cycle counter equals the CPU cycles consumed, instruction cycles plus
\* stall cycles.
C1_TickRatio ==
    /\ nes.apu.cycle = hist.start + hist.apuTicks
    /\ (pc = "cpu" \/ pc = "done") =>
          /\ hist.ppuTicks = 3 * hist.apuTicks
          /\ nes.apu.cycle = nes.cpu.cycles + hist.stallSteps
    /\ pc = "ppu" =>
          /\ cpuCycles >= 1
          /\ i < 3 * cpuCycles
          /\ hist.ppuTicks = 3 * hist.apuTicks + i
          /\ nes.apu.cycle + cpuCycles = nes.cpu.cycles + hist.stallSteps
    /\ pc = "apu" =>
          /\ cpuCycles >= 1
          /\ i < cpuCycles
          /\ hist.ppuTicks = 3 * (hist.apuTicks - i) + 3 * cpuCycles
          /\ nes.apu.cycle + (cpuCycles - i) = nes.cpu.cycles + hist.stallSteps

\* A pass boundary after stall steps and instructions have both run.
C1_Witness ==
    /\ pc = "cpu"
    /\ hist.stallSteps > 2
    /\ last.kind = "instr"
    /\ hist.apuTicks > hist.stallSteps + 2

\* C2: when the PPU has asserted NMI, the next CPU step with stall = 0 takes
\* the NMI; no IRQ request arriving in between replaces it.
C2_NmiTakenAtNextBoundary ==
    (last.kind = "instr" /\ last.nmiWas) => last.took = "nmi"

\* C3 as stated: 15 PPU dots after a write of $2000 that turns nmi_out on
\* while nmi_occurred is set, the NMI has been asserted, whatever the PPU
\* position and whatever the CPU did meanwhile.
C3_NmiWithin15Dots ==
    (hist.ctrl.active /\ hist.ctrl.dots >= 15) => hist.ctrl.asserted

\* C3 amended: after such a write the NMI is asserted at the 15th PPU dot,
\* and not earlier, exactly when nmi_out and nmi_occurred both stayed set up
\* to that dot; if either was cleared in between (a read of $2002, a write
\* of $2000, the pre-render line) the write asserts no NMI.
C3_NmiAt15thDotIfHeld ==
    hist.ctrl.active =>
        /\ hist.ctrl.dots < 15 => ~hist.ctrl.asserted
        /\ hist.ctrl.dots >= 15 => (hist.ctrl.asserted <=> hist.ctrl.held)

\* The NMI asserted at the 15th dot after the write.
C3_Witness ==
    hist.ctrl.active /\ hist.ctrl.dots >= 15 /\ hist.ctrl.held /\ hist.ctrl.asserted

\* The bytes of the interrupt sequence of the most recent CPU step.
EntryOk(vector) ==
    LET c == last.pre.cpu
        e == last.entry
    IN  /\ Get(e.RAM, 256 + c.SP) = c.PC \div 256
        /\ Get(e.RAM, 256 + U8(c.SP - 1)) = c.PC % 256
        /\ Get(e.RAM, 256 + U8(c.SP - 2)) = BitOr(BitAnd(c.flags, 239), 32)
        /\ e.cpu.SP = U8(c.SP - 3)
        /\ getI(e.cpu) = 1
        /\ e.cpu.PC = read16(last.pre, vector).val
        /\ e.cpu.cycles = c.cycles + 7
        /\ last.post.cpu.interrupt = interruptNone

\* C4: a taken NMI pushes PC high, PC low and the flags with bit 4 clear and
\* bit 5 set, sets I, loads PC from $FFFA and adds 7 cycles; a taken IRQ
\* does the same through $FFFE; the latch is None afterwards.
C4_InterruptSequence ==
    /\ (last.kind = "instr" /\ last.took = "nmi") => EntryOk(65530)
    /\ (last.kind = "instr" /\ last.took = "irq") => EntryOk(65534)

\* C5: an IRQ source that fired while I = 1 is still pending: the first CPU
\* step with stall = 0 and I = 0 takes the IRQ (unless it takes an NMI).
C5_IrqStaysPending ==
    (/\ last.kind = "instr"
     /\ last.irqDroppedWas
     /\ getI(last.pre.cpu) = 0
     /\ last.took # "nmi") => last.took = "irq"

\* C6: the IRQ latch is never set while I = 1, so no CPU step enters the IRQ
\* sequence with I = 1, stall steps included.
C6_NoIrqWhileMasked ==
    /\ nes.cpu.interrupt = interruptIRQ => getI(nes.cpu) = 0
    /\ (last.kind = "instr" /\ last.took = "irq") => getI(last.pre.cpu) = 0

\* An IRQ latched during stall steps and taken after them.
C6_Witness ==
    /\ last.kind = "instr"
    /\ last.took = "irq"
    /\ hist.stallSteps > 0
    /\ getI(last.pre.cpu) = 0

\* The table row of the most recent step's opcode.
LastInstr == Instr(last.opcode)

\* Operand bytes of the most recent step's instruction.
LastLo == readByte(last.pre, U16(last.pre.cpu.PC + 1)).val
LastHi == readByte(last.pre, U16(last.pre.cpu.PC + 2)).val

\* Whether the indexed effective address is on another page than its base.
LastCrossed ==
    LET c == last.pre.cpu
        mode == LastInstr.mode
        ptr == Get(last.pre.RAM, LastLo) + 256 * Get(last.pre.RAM, U8(LastLo + 1))
        abs == LastLo + 256 * LastHi
    IN  \/ mode = modeAbsoluteX /\ (abs \div 256) # (U16(abs + c.X) \div 256)
        \/ mode = modeAbsoluteY /\ (abs \div 256) # (U16(abs + c.Y) \div 256)
        \/ mode = modeIndirectIndexed /\ (ptr \div 256) # (U16(ptr + c.Y) \div 256)

\* Whether the most recent step's instruction is a branch that is taken.
LastTaken ==
    LET c == last.pre.cpu
        n == LastInstr.name
    IN  \/ n = "BPL" /\ Bit(c.flags, 7) = 0
        \/ n = "BMI" /\ Bit(c.flags, 7) = 1
        \/ n = "BVC" /\ Bit(c.flags, 6) = 0
        \/ n = "BVS" /\ Bit(c.flags, 6) = 1
        \/ n = "BCC" /\ Bit(c.flags, 0) = 0
        \/ n = "BCS" /\ Bit(c.flags, 0) = 1
        \/ n = "BNE" /\ Bit(c.flags, 1) = 0
        \/ n = "BEQ" /\ Bit(c.flags, 1) = 1

LastBranchTarget ==
    U16(last.pre.cpu.PC + 2 + LastLo - (IF LastLo >= 128 THEN 256 ELSE 0))

LastExpectedCycles ==
    LastInstr.cycles
    + (IF LastCrossed THEN LastInstr.page_cross_cycles ELSE 0)
    + (IF LastTaken THEN 1 ELSE 0)
    + (IF LastTaken /\ (LastBranchTarget \div 256) # (U16(last.pre.cpu.PC + 2) \div 256)
       THEN 1 ELSE 0)

\* C7: with stall = 0 and no interrupt latched, a CPU step consumes at least
\* 2 cycles and exactly the table's cycles, plus the table's page-cross
\* cycles when an AbsoluteX, AbsoluteY or IndirectIndexed address is on
\* another page than its base, plus 1 for a taken branch and 1 more when the
\* branch target is on another page than the next instruction.
C7_StepCycles ==
    (last.kind = "instr" /\ last.took = "none") =>
        /\ last.cpuCycles >= 2
        /\ last.cpuCycles = LastExpectedCycles

\* A taken branch to another page, and an indexed read across a page.
C7_Witness ==
    /\ last.kind = "instr"
    /\ last.took = "none"
    /\ \/ LastTaken /\ last.cpuCycles = LastInstr.cycles + 2
       \/ LastCrossed /\ last.cpuCycles = LastInstr.cycles + 1

UnofficialNames ==
    {"AHX", "ALR", "ANC", "ARR", "AXS", "DCP", "ISC", "KIL", "LAS", "LAX", "RLA",
     "RRA", "SAX", "SHX", "SHY", "SLO", "SRE", "TAS", "XAA"}

\* Whether the most recent step left A, X, Y, SP and the flags as they were.
LastKeepsRegisters ==
    /\ last.post.cpu.A = last.pre.cpu.A
    /\ last.post.cpu.X = last.pre.cpu.X
    /\ last.post.cpu.Y = last.pre.cpu.Y
    /\ last.post.cpu.SP = last.pre.cpu.SP
    /\ last.post.cpu.flags = last.pre.cpu.flags

\* C8: a step of an unofficial opcode changes no register, no flag and no
\* memory, advances PC by 1 to 3 bytes and adds the table's cycles (with the
\* table's page-cross cycles where they apply).
C8_UnofficialNoOp ==
    (last.kind = "instr" /\ last.took = "none" /\ LastInstr.name \in UnofficialNames) =>
        /\ LastKeepsRegisters
        /\ last.post.RAM = last.pre.RAM
        /\ last.post.ppu = last.pre.ppu
        /\ last.post.mapper = last.pre.mapper
        /\ last.post.cartridge = last.pre.cartridge
        /\ last.post.cpu.PC - last.pre.cpu.PC \in 1..3
        /\ last.cpuCycles = LastExpectedCycles

\* The canonical addressing mode of the eight AND opcodes.
AndMode(opcode) ==
    CASE opcode = 33 -> modeIndexedIndirect
      [] opcode = 37 -> modeZeroPage
      [] opcode = 41 -> modeImmediate
      [] opcode = 45 -> modeAbsolute
      [] opcode = 49 -> modeIndirectIndexed
      [] opcode = 53 -> modeZeroPageX
      [] opcode = 57 -> modeAbsoluteY
      [] opcode = 61 -> modeAbsoluteX

\* The canonical byte length of an addressing mode.
ModeSize(mode) ==
    IF mode \in {modeImplied, modeAccumulator} THEN 1
    ELSE IF mode \in {modeAbsolute, modeAbsoluteX, modeAbsoluteY, modeIndirect} THEN 3
    ELSE 2

\* C9: every official opcode has the byte length of its addressing mode;
\* each of the eight AND opcodes sets A to A & operand and Z and N from the
\* result; no opcode with an unofficial mnemonic changes a register or flag.
C9_DecodeTable ==
    (last.kind = "instr" /\ last.took = "none") =>
        /\ LastInstr.name \notin UnofficialNames => LastInstr.size = ModeSize(LastInstr.mode)
        /\ last.opcode \in {33, 37, 41, 45, 49, 53, 57, 61} =>
              LET op == Operand(last.pre, AndMode(last.opcode))
                  r == BitAnd(last.pre.cpu.A, readByte(op.nes, op.address).val)
              IN  /\ last.post.cpu.A = r
                  /\ Bit(last.post.cpu.flags, 1) = (IF r = 0 THEN 1 ELSE 0)
                  /\ Bit(last.post.cpu.flags, 7) = Bit(r, 7)
        /\ LastInstr.name \in UnofficialNames => LastKeepsRegisters

\* The flags byte pushed by the most recent step, when it was PHP or BRK.
LastPushedFlags == Get(last.post.RAM, 256 + U8(last.post.cpu.SP + 1))

\* C10: the flags register always has bit 5 set and bit 4 clear, whatever
\* PLP and RTI pop; the flags byte pushed by PHP or BRK has bits 4 and 5 set.
C10_FlagBits ==
    /\ Bit(nes.cpu.flags, 5) = 1
    /\ Bit(nes.cpu.flags, 4) = 0
    /\ (last.kind = "instr" /\ last.took = "none" /\ last.opcode \in {0, 8}) =>
          (Bit(LastPushedFlags, 4) = 1 /\ Bit(LastPushedFlags, 5) = 1)

\* PLP having popped $FF, or BRK having pushed its flags byte.
C10_Witness ==
    /\ last.kind = "instr"
    /\ last.took = "none"
    /\ \/ /\ last.opcode = 40
          /\ Get(last.pre.RAM, 256 + U8(last.pre.cpu.SP + 1)) = 255
          /\ nes.cpu.flags = 239
       \/ /\ last.opcode = 0
          /\ LastPushedFlags = BitOr(last.pre.cpu.flags, 48)


-----------------------------------------------------------------------------
\* C11: RAM mirroring.  In every state reached by CPU-bus writes, every
\* address a below $2000 reads the same byte as a & $07FF and as a | $0800;
\* and a write to an address below $2000 is read back through all four
\* mirrors of the cell and leaves every other RAM cell as it was.
RamSpace == 0..8191

C11_RamMirroring ==
    /\ \A a \in RamSpace :
          \E v \in {readByte(nes, a).val} :
             /\ v = readByte(nes, a % 2048).val
             /\ v = readByte(nes, a + (1 - Bit(a, 11)) * 2048).val
    /\ (last.kind = "write" /\ last.address < 8192) =>
          \A b \in RamSpace :
             readByte(last.post, b).val =
                IF b % 2048 = last.address % 2048 THEN last.value
                ELSE readByte(last.pre, b).val

\* A non-zero byte written through the mirror $1805 is read at $0005.
C11_Witness ==
    /\ last.kind = "write" /\ last.address = 6149 /\ last.value = 165
    /\ readByte(nes, 5).val = 165
    /\ readByte(nes, 2047).val = 90

-----------------------------------------------------------------------------
\* C12: palette mirroring.  After any sequence of palette writes through
\* $2007, every palette address a (mod $20) with a & 3 = 0 and a >= $10 reads
\* the same byte as a - $10; and a byte written at palette address p is read
\* back at p and, when p & 3 = 0, at the other of p and p +/- $10.
PaletteMirrors == {16, 20, 24, 28}

\* The palette address a $2007 access of last used, or -1.
LastPaletteAddress ==
    IF last.address = 8199 /\ (last.pre.ppu.v % 16384) >= 16128
    THEN last.pre.ppu.v % 32
    ELSE -1

C12_PaletteMirroring ==
    /\ \A a \in PaletteMirrors :
          /\ readPalette(nes.ppu, a) = readPalette(nes.ppu, a - 16)
          /\ readPPU(nes, 16128 + a) = readPPU(nes, 16128 + a - 16)
    /\ (last.kind = "write" /\ LastPaletteAddress >= 0) =>
          /\ readPalette(last.post.ppu, LastPaletteAddress) = last.value
          /\ (LastPaletteAddress % 4 = 0) =>
                /\ readPalette(last.post.ppu, LastPaletteAddress % 16) = last.value
                /\ readPalette(last.post.ppu, (LastPaletteAddress % 16) + 16) = last.value
    /\ (last.kind = "read" /\ LastPaletteAddress >= 0) =>
          last.value = Get(last.pre.ppu.palette_tbl,
                           IF LastPaletteAddress % 4 = 0 THEN LastPaletteAddress % 16
                           ELSE LastPaletteAddress)

\* A byte written at $3F10 is in cell 0 of the palette and read at $3F00.
C12_Witness ==
    /\ last.kind = "write" /\ LastPaletteAddress = 16 /\ last.value = 42
    /\ readPPU(nes, 16128) = 42
    /\ Get(nes.ppu.palette_tbl, 0) = 42

-----------------------------------------------------------------------------
(* MMC1 registers.                                                         *)

RECURSIVE BitsValue(_)
\* The value of a sequence of bits, first bit least significant.
BitsValue(bits) == IF bits = <<>> THEN 0 ELSE bits[1] + 2 * BitsValue(Tail(bits))

\* The last step is an MMC1 register write with bit 7 set / clear.
LastMmc1Reset == pc = "mmc1" /\ last.kind = "write" /\ last.value >= 128
LastMmc1Shift == pc = "mmc1" /\ last.kind = "write" /\ last.value < 128

\* The five bits of the load the last write completed.
LastLoaded == BitsValue(Append(last.bits, last.value % 2))

\* C13: a write to $8000-$FFFF with bit 7 set, in any state of the serial
\* load, leaves the shift register at 0x10, the control register OR-ed with
\* 0x0C and the PRG mode 3; the bits shifted in before it are discarded: the
\* load that follows completes on its fifth bit-7-clear write and stores
\* exactly the five bits written after the reset.
C13_Mmc1Reset ==
    /\ LastMmc1Reset =>
         /\ last.post.mapper.shift_reg = 16
         /\ last.post.mapper.control = BitOr(last.pre.mapper.control, 12)
         /\ last.post.mapper.prg_mode = 3
    /\ (LastMmc1Shift /\ last.fresh) =>
         IF Len(last.bits) = 4
         THEN /\ last.post.mapper.shift_reg = 16
              /\ last.address >= 57344 => last.post.mapper.prg_bank = LastLoaded % 16
              /\ (last.address >= 49152 /\ last.address < 57344)
                    => last.post.mapper.chr_bank1 = LastLoaded
              /\ (last.address >= 40960 /\ last.address < 49152)
                    => last.post.mapper.chr_bank0 = LastLoaded
              /\ last.address < 40960 => last.post.mapper.control = LastLoaded
         ELSE /\ last.post.mapper.shift_reg # 16
              /\ last.post.mapper.control = last.pre.mapper.control
              /\ last.post.mapper.prg_bank = last.pre.mapper.prg_bank

\* A reset write arrives with three bits shifted in and PRG mode 0.
C13_Witness ==
    /\ LastMmc1Reset
    /\ Len(last.bits) = 3
    /\ last.pre.mapper.shift_reg # 16
    /\ last.pre.mapper.prg_mode = 0
    /\ last.post.mapper.prg_mode = 3

\* The registers of the MMC1 other than the shift register.
Mmc1Registers(m) ==
    [control |-> m.mapper.control, chr_mode |-> m.mapper.chr_mode,
     prg_mode |-> m.mapper.prg_mode, chr_bank0 |-> m.mapper.chr_bank0,
     chr_bank1 |-> m.mapper.chr_bank1, prg_bank |-> m.mapper.prg_bank,
     mirror |-> m.cartridge.mirror]

\* The registers after a load of value v through the given address.
Mmc1Loaded(r, address, v) ==
    IF address < 40960
    THEN [r EXCEPT !.control = v, !.chr_mode = (v \div 16) % 2,
                   !.prg_mode = (v \div 4) % 4,
                   !.mirror = <<MirrorSingle0, MirrorSingle1, MirrorVertical,
                                MirrorHorizontal>>[(v % 4) + 1]]
    ELSE IF address < 49152 THEN [r EXCEPT !.chr_bank0 = v]
    ELSE IF address < 57344 THEN [r EXCEPT !.chr_bank1 = v]
    ELSE [r EXCEPT !.prg_bank = v % 16]

\* C14: of the bit-7-clear writes to $8000-$FFFF since the shift register
\* was 0x10, the fifth (and no earlier one) stores the five bit-0 values,
\* first written least significant, into the register the fifth write's
\* address selects and into no other, recomputes the bank offsets and
\* leaves the shift register at 0x10; the bits 1,0,1,1,0 with the fifth
\* write to $E000 give prg_bank = 0x0D.
C14_Mmc1SerialLoad ==
    LastMmc1Shift =>
      IF Len(last.bits) = 4
      THEN /\ Mmc1Registers(last.post)
                = Mmc1Loaded(Mmc1Registers(last.pre), last.address, LastLoaded)
           /\ last.post.mapper = Mapper1_updateOffsets(last.post.mapper, last.post.cartridge)
           /\ last.post.mapper.shift_reg = 16
           /\ (last.bits = <<1, 0, 1, 1>> /\ last.value = 0 /\ last.address >= 57344)
                 => last.post.mapper.prg_bank = 13
      ELSE /\ Mmc1Registers(last.post) = Mmc1Registers(last.pre)
           /\ last.post.mapper.prg_offsets = last.pre.mapper.prg_offsets
           /\ last.post.mapper.chr_offsets = last.pre.mapper.chr_offsets
           /\ last.post.mapper.shift_reg # 16

\* The fifth write of the bits 1,0,1,1,0 goes to $E000 and changes the
\* PRG bank and the offset of the switchable window.
C14_Witness ==
    /\ LastMmc1Shift
    /\ last.bits = <<1, 0, 1, 1>>
    /\ last.value = 0
    /\ last.address = 57344
    /\ last.post.mapper.prg_bank = 13
    /\ last.post.mapper.prg_offsets # last.pre.mapper.prg_offsets

-----------------------------------------------------------------------------
(* PPU registers.                                                          *)

\* The last step is a CPU read of PPUSTATUS through $2002 or a mirror.
LastStatusRead ==
    /\ pc = "bus"
    /\ last.kind = "read"
    /\ last.address >= 8192
    /\ last.address < 16384
    /\ last.address % 8 = 2

\* C15: after a CPU read of $2002 or of one of its mirrors below $4000,
\* whatever the PPU state and the PPU register write before it,
\* nmi_occurred is false and the write toggle w is 0.
C15_StatusRead ==
    LastStatusRead => (~last.post.ppu.nmi_occurred /\ last.post.ppu.w = 0)

\* PPUSTATUS is read through a mirror in the vertical blank, right after
\* the first write of a pair.
C15_Witness ==
    /\ LastStatusRead
    /\ last.address = 16378
    /\ last.prev.kind = "write"
    /\ last.pre.ppu.nmi_occurred
    /\ last.pre.ppu.w = 1
    /\ last.value >= 128

\* The access is a CPU write to PPUADDR through $2006 or a mirror.
IsAddrWrite(access) ==
    /\ access.kind = "write"
    /\ access.address >= 8192
    /\ access.address < 16384
    /\ access.address % 8 = 6

\* The last two steps are writes to PPUADDR, the first with w = 0.
LastAddrPair ==
    /\ pc = "bus"
    /\ IsAddrWrite(last)
    /\ IsAddrWrite(last.prev)
    /\ last.prev.pre.ppu.w = 0

\* C16: two successive writes hi, lo to $2006 that start with w = 0 leave
\* v = ((hi & 0x3F) << 8) | lo, so bits 14 and 15 of v are 0 whatever t and
\* v were, and leave w = 0.
C16_AddrPair ==
    LastAddrPair =>
        /\ last.post.ppu.v = (last.prev.value % 64) * 256 + last.value
        /\ last.post.ppu.v < 16384
        /\ last.post.ppu.w = 0

\* The pair is written with hi = $FF while t has bit 14 set.
C16_Witness ==
    /\ LastAddrPair
    /\ last.prev.value = 255
    /\ last.prev.pre.ppu.t >= 16384
    /\ last.post.ppu.v = 16128 + last.value

-----------------------------------------------------------------------------
(* Battery RAM.                                                            *)

\* C17: under each of the mappers 0, 1, 2, 3, 4 and 7, a read of an address
\* in $6000-$7FFF returns the value last written to it, whatever writes to
\* $8000-$FFFF or to other SRAM addresses came in between; a write to
\* $8000-$FFFF leaves the SRAM as it was.
C17_SramReadBack ==
    pc = "sram" =>
        /\ \A a \in SramAddresses :
              hist.shadow[a] >= 0 => readByte(nes, a).val = hist.shadow[a]
        /\ (last.kind = "read" /\ hist.shadow[last.address] >= 0)
              => last.value = hist.shadow[last.address]
        /\ last.kind = "bank" => last.post.cartridge.SRAM = last.pre.cartridge.SRAM

\* Under mapper 3, $7FFF is read back after a write to it, a write to
\* another SRAM address and a bank selection.
C17_Witness ==
    /\ pc = "sram"
    /\ nes.cartridge.mapper = 3
    /\ last.kind = "read"
    /\ last.address = 32767
    /\ last.value = 165
    /\ hist.shadow[24576] = 90
    /\ nes.mapper.chr_bank = 3

-----------------------------------------------------------------------------
(* OAM DMA.                                                                *)

\* The last step is an instruction that wrote its accumulator to $4014.
LastDma ==
    /\ pc \in {"cpu", "ppu", "apu", "done"}
    /\ last.kind = "instr"
    /\ last.opcode \in {141, 157}
    /\ readByte(last.entry, U16(last.entry.cpu.PC + 1)).val + last.entry.cpu.X = 20
    /\ readByte(last.entry, U16(last.entry.cpu.PC + 2)).val = 64

\* C18: a write of page P to $4014 stores the byte read from (P << 8) + k
\* at OAM[(OAMADDR + k) mod 256] for k = 0..255 and adds 513 to the CPU
\* stall counter when cpu->cycles is even at the write and 514 when it is
\* odd; emulate() spends those stall cycles, one per pass, before it
\* fetches another opcode.
C18_OamDma ==
    /\ LastDma =>
         /\ \A k \in 0..255 :
               Get(last.post.ppu.oam_tbl, (last.entry.ppu.oam_addr + k) % 256)
                  = readByte(last.entry, last.entry.cpu.A * 256 + k).val
         /\ last.post.cpu.stall
               = last.entry.cpu.stall + (IF last.post.cpu.cycles % 2 = 0 THEN 513 ELSE 514)
    /\ (pc \in {"cpu", "ppu", "apu", "done"} /\ last.kind = "stall"
           /\ nes.cartridge.rom \in DmaRoms) =>
         hist.stallSteps + nes.cpu.stall
            = (IF nes.cpu.cycles % 2 = 0 THEN 513 ELSE 514)
    /\ (pc \in {"cpu", "ppu", "apu", "done"} /\ last.kind = "instr"
           /\ nes.cartridge.rom \in DmaRoms) =>
         /\ last.pre.cpu.stall = 0
         /\ hist.stallSteps \in {0, 513, 514}

\* The opcode after a DMA on an odd cycle is executed after 514 stall
\* passes, with the two ends of page 2 wrapped around OAMADDR = $FE.
C18_Witness ==
    /\ pc \in {"cpu", "ppu", "apu", "done"}
    /\ last.kind = "instr"
    /\ last.opcode = 76
    /\ hist.stallSteps = 514
    /\ Get(nes.ppu.oam_tbl, 254) = 90
    /\ Get(nes.ppu.oam_tbl, 253) = 165
    /\ nes.ppu.oam_addr = 254

-----------------------------------------------------------------------------
(* Noise channel.                                                          *)

\* C19: clocked in mode 0 only, the noise shift register that starts at 1
\* is 1 again after 32767 clocks and after no smaller positive number of
\* clocks; under every interleaving of mode-0 and mode-1 clocks it is
\* never 0 and always below 2^15.
C19_NoisePeriod ==
    pc = "noise" =>
        /\ nes.apu.noise.shift_reg # 0
        /\ nes.apu.noise.shift_reg < 32768
        /\ (hist.pure /\ nes.apu.noise.shift_reg = 1) => hist.clocks \in {0, 32767}
        /\ (hist.pure /\ hist.clocks = 32767) => nes.apu.noise.shift_reg = 1

\* The register is back at 1 after 32767 mode-0 clocks.
C19_Witness ==
    /\ pc = "noise"
    /\ hist.pure
    /\ hist.clocks = 32767
    /\ nes.apu.noise.shift_reg = 1
    /\ last.kind = "clock"

-----------------------------------------------------------------------------
(* Sprite-zero hit.                                                        *)

\* The PPU of the sprite-zero scenario stands in its first rendered frame.
HitFrame == nes.cartridge.rom = 11 /\ nes.ppu.frame = 1

\* The dot of the PPU in the frame, in dots from scanline 0, dot 0.
HitDot == nes.ppu.scanline * 341 + nes.ppu.cycle

\* C20 as stated: with OAM entry 0 at x = 16, y = 32 over a solid
\* background, flag_sprite_zero_hit is 0 up to scanline 32, dot 16, becomes
\* 1 on scanline 32, so that it is 1 from scanline 33 on, and is 0 from
\* scanline 261, dot 1.
C20_Original ==
    HitFrame =>
        /\ HitDot < 32 * 341 + 17 => nes.ppu.flag_sprite_zero_hit = 0
        /\ (HitDot >= 33 * 341 /\ HitDot < 261 * 341 + 1) => nes.ppu.flag_sprite_zero_hit = 1
        /\ HitDot >= 261 * 341 + 1 => nes.ppu.flag_sprite_zero_hit = 0

\* C20, amended: with OAM entry 0 at x = 16, y = 32 over a solid
\* background, flag_sprite_zero_hit is 0 in the frame before scanline 33,
\* dot 17, is 1 from that dot on, and is cleared at scanline 261, dot 1; it
\* is 0 throughout the frame before.
C20_SpriteZeroHit ==
    nes.cartridge.rom = 11 =>
        /\ nes.ppu.frame = 0 => nes.ppu.flag_sprite_zero_hit = 0
        /\ HitFrame =>
             (nes.ppu.flag_sprite_zero_hit = 1
                 <=> (HitDot >= 33 * 341 + 17 /\ HitDot < 261 * 341 + 1))

\* The flag is set at dot 17 of scanline 33 by OAM entry 0, the only sprite
\* of the line, after the eight sprites of the first lines overflowed.
C20_Witness ==
    /\ HitFrame
    /\ nes.ppu.scanline = 33
    /\ nes.ppu.cycle = 17
    /\ nes.ppu.flag_sprite_zero_hit = 1
    /\ nes.ppu.flag_sprite_overflow = 1
    /\ nes.ppu.sprite_cnt = 1
    /\ nes.ppu.sprite_idx[1] = 0
    /\ nes.ppu.sprite_pos[1] = 16

\* C21: after every PPU tick and register write from power-on the dot
\* counter is in 0..340, the scanline counter in 0..261 and the odd/even
\* flag f is the frame counter modulo 2.
C21_Counters ==
    /\ nes.ppu.cycle \in 0..340
    /\ nes.ppu.scanline \in 0..261
    /\ nes.ppu.f = nes.ppu.frame % 2

\* A tick has just wrapped the counters from the last dot of an odd frame.
C21_Witness ==
    /\ last.kind = "dot"
    /\ last.pre.scanline = 261
    /\ last.pre.f = 1
    /\ last.post.frame = 2
    /\ nes.ppu.cycle = 0
    /\ nes.ppu.scanline = 0
    /\ nes.ppu.f = 0

DotsPerFrame == 341 * 262

\* The last step was a tick that changed the frame counter.
LastWrap == last.kind = "dot" /\ last.post.frame # last.pre.frame

\* C22: a tick from dot 339 of the pre-render line of an odd frame with
\* rendering enabled goes to scanline 0, dot 0, and that frame lasts 89341
\* dots; every even frame and every frame with rendering disabled at that
\* dot lasts 341 * 262 = 89342 dots; the frame counter goes up by one on a
\* wrap to scanline 0, dot 0 and changes on no other tick.
C22_OddFrameSkip ==
    last.kind = "dot" =>
        /\ (last.pre.render /\ last.pre.f = 1 /\ last.pre.scanline = 261
                /\ last.pre.cycle = 339)
           => (last.post.scanline = 0 /\ last.post.cycle = 0)
        /\ (LastWrap /\ hist.length # 0)
           => hist.length = IF last.pre.render /\ last.pre.f = 1
                            THEN DotsPerFrame - 1 ELSE DotsPerFrame
        /\ last.post.frame =
              IF last.pre.scanline = 261 /\ last.post.scanline = 0
              THEN last.pre.frame + 1 ELSE last.pre.frame
        /\ hist.wraps = nes.ppu.frame

\* The odd frame 1, rendered to its end, has just ended one dot early.
C22_Witness ==
    /\ LastWrap
    /\ last.pre.f = 1
    /\ last.pre.cycle = 339
    /\ hist.length = DotsPerFrame - 1

ApuStatus(apu) ==
    (IF apu.pulse1.length_val > 0 THEN 1 ELSE 0)
    + (IF apu.pulse2.length_val > 0 THEN 2 ELSE 0)
    + (IF apu.triangle.length_val > 0 THEN 4 ELSE 0)
    + (IF apu.noise.length_val > 0 THEN 8 ELSE 0)
    + (IF apu.dmc.cur_len > 0 THEN 16 ELSE 0)

\* C24: a CPU read of $4015 returns the APU status: bits 0..3 tell whether
\* the length counters of pulse 1, pulse 2, triangle and noise are above 0,
\* bit 4 whether the DMC has bytes remaining.
C24_StatusRead ==
    (last.kind = "read" /\ last.address = 16405)
        => last.value = ApuStatus(last.pre.apu)

\* C25: on a mapper-0 cartridge, after any CPU writes to $8000-$FFFF a read
\* of an address in $8000-$FFFF returns the PRG byte it returned at
\* power-on.
C25_NromFixedBanks ==
    (last.kind = "read" /\ last.address >= 32768)
        => last.value = readByte(NromPowerOn, last.address).val

\* A dot at which the claim has the scanline counter clocked: dot 280 of
\* scanlines 0..239 and 261, rendering enabled.
CounterDot(ppu) ==
    /\ ppu.cycle = 280
    /\ ppu.scanline \in (0 .. 239) \cup {261}
    /\ (ppu.flag_show_background # 0 \/ ppu.flag_show_sprites # 0)

\* The number of the clock at a counter dot, counted from a reload requested
\* in the vertical blank of frame 0: 1 on the pre-render line, then
\* scanline + 2.
ClockNumber(ppu) == IF ppu.frame = 0 THEN 1 ELSE ppu.scanline + 2

\* nes' has the IRQ requested and nes has not.
IrqRaised == nes'.cpu.interrupt = interruptIRQ /\ nes.cpu.interrupt # interruptIRQ

\* C26: a pass of the PPU loop clocks the MMC3 counter exactly when the PPU
\* has reached dot 280 of a scanline in 0..239 or 261 with rendering on; a
\* clock reloads a counter of 0 from the latch and decrements any other,
\* requesting the IRQ when it reaches 0 with the IRQ enabled and I = 0.
\* With latch L >= 1 and the reload requested in the vertical blank, the
\* IRQ is requested on clock L + 1 (and on its multiples), and never while
\* the IRQ is disabled by $E000.
C26_Mmc3Counter ==
    [][pc = "ppu" =>
        /\ CounterDot(nes'.ppu) =>
            /\ nes'.mapper.counter = IF nes.mapper.counter = 0 THEN nes.mapper.reload
                                     ELSE nes.mapper.counter - 1
            /\ IrqRaised <=> (/\ nes.mapper.counter = 1
                              /\ nes.mapper.IRQ_enable
                              /\ getI(nes.cpu) = 0)
            /\ (nes.mapper.IRQ_enable /\ getI(nes.cpu) = 0 /\ nes.mapper.reload >= 1)
                  => (IrqRaised <=> ClockNumber(nes'.ppu) % (nes.mapper.reload + 1) = 0)
        /\ ~CounterDot(nes'.ppu) => (nes'.mapper = nes.mapper /\ ~IrqRaised)
        /\ ~nes.mapper.IRQ_enable => ~IrqRaised
    ]_vars

\* Latch 2: the third clock after the reload, at dot 280 of scanline 1, has
\* just brought the counter to 0 and requested the IRQ.
C26_Witness ==
    /\ nes.cartridge.rom = 13
    /\ nes.ppu.frame = 1
    /\ nes.ppu.scanline = 1
    /\ nes.ppu.cycle = 280
    /\ nes.mapper.reload = 2
    /\ nes.mapper.counter = 0
    /\ nes.cpu.interrupt = interruptIRQ

\* The ROM cannot be opened or read, its magic is wrong, or its mapper id is
\* not supported.
StartupError == nes.file # "ok" \/ nes.mapperId \notin SupportedMappers

\* C27: after a startup error the program reports it, never calls emulate()
\* and never uses the CPU, PPU, APU or mapper it did not build, and it exits
\* with a non-zero status.
C27_StartupErrorsFatal ==
    (StartupError /\ pc # "main") =>
        /\ nes.reported
        /\ hist.emulateCalls = 0
        /\ ~hist.touched
        /\ last.exited => last.status # EXIT_SUCCESS

\* The address the instruction at $0600 reads its pointer from.
PointerAt(m) ==
    LET lo == Get(m.RAM, PointerPC + 1)
        hi == Get(m.RAM, PointerPC + 2)
        opcode == Get(m.RAM, PointerPC)
    IN  IF opcode = 108 THEN hi * 256 + lo
        ELSE IF opcode = 161 THEN (lo + m.cpu.X) % 256
        ELSE lo

\* Where the claim takes the pointer's high byte from.
PointerHighAt(p) == IF p % 256 = 255 THEN p - 255 ELSE p + 1

PointerTarget(m) ==
    Get(m.RAM, PointerAt(m)) + 256 * Get(m.RAM, PointerHighAt(PointerAt(m)))

\* C28: a two-byte pointer at p has its low byte at p and its high byte at
\* p + 1, except that for p = $xxFF the high byte is at $xx00; so for JMP
\* (abs), and so for the zero-page pointers of (zp,X) and (zp),Y.
C28_PointerWrap ==
    (last.kind = "instr" /\ last.took = "none") =>
        /\ last.opcode = 108 => last.post.cpu.PC = PointerTarget(last.pre)
        /\ last.opcode = 161 =>
             last.post.cpu.A = Get(last.pre.RAM, PointerTarget(last.pre) % 2048)
        /\ last.opcode = 177 =>
             last.post.cpu.A =
                 Get(last.pre.RAM, (PointerTarget(last.pre) + last.pre.cpu.Y) % 2048)

\* JMP ($02FF) has taken its target's high byte from $0200, and a (zp),Y
\* pointer at $FF its high byte from $00.
C28_Witness ==
    /\ last.kind = "instr"
    /\ last.took = "none"
    /\ \/ /\ last.opcode = 108
          /\ PointerAt(last.pre) = 767
          /\ last.post.cpu.PC = Get(last.pre.RAM, 767) + 256 * Get(last.pre.RAM, 512)
          /\ Get(last.pre.RAM, 512) # Get(last.pre.RAM, 768)
       \/ /\ last.opcode = 177
          /\ PointerAt(last.pre) = 255
          /\ last.post.cpu.A =
                 Get(last.pre.RAM, Get(last.pre.RAM, 255) + 256 * Get(last.pre.RAM, 0)
                                   + last.pre.cpu.Y)

\* The sign of a byte as a two's-complement number.
Negative(x) == x >= 128

\* The flags the claim names agree with 'result', carry 'carry' and
\* overflow 'overflow'.
AluFlags(cpu, result, carry, overflow) ==
    /\ cpu.A = result
    /\ (getC(cpu) = 1) <=> carry
    /\ (getV(cpu) = 1) <=> overflow
    /\ (getZ(cpu) = 1) <=> (result = 0)
    /\ getN(cpu) = result \div 128

\* C29: whatever the D flag, ADC leaves A = (A + M + C) mod 256, C = carry
\* out, V = operands of one sign and a result of the other; SBC leaves
\* A = (A - M - (1 - C)) mod 256, C = no borrow, V = operands of different
\* signs and a result whose sign differs from A's; Z and N follow the result.
C29_AdcSbc ==
    LET a == last.a
        b == last.b
        sum == last.a + last.b + last.c
        difference == last.a - last.b - (1 - last.c)
    IN  /\ last.kind = "adc" =>
              AluFlags(nes.cpu, sum % 256, sum > 255,
                       Negative(a) = Negative(b) /\ Negative(sum % 256) # Negative(a))
        /\ last.kind = "sbc" =>
              AluFlags(nes.cpu, difference % 256, difference >= 0,
                       Negative(a) # Negative(b)
                           /\ Negative(difference % 256) # Negative(a))

\* SBC of $80 - $01 with the D flag set and no borrow has left $7F with C
\* and V set.
C29_Witness ==
    /\ last.kind = "sbc"
    /\ last.a = 128 /\ last.b = 1 /\ last.c = 1 /\ last.d = 1
    /\ nes.cpu.A = 127
    /\ getC(nes.cpu) = 1
    /\ getV(nes.cpu) = 1

\* The tick from 'cycle' to 'cycle' + 1 crosses a 240 Hz boundary.
CrossesFrameStep(cycle) == (cycle * 240) \div CPU_FREQ # ((cycle + 1) * 240) \div CPU_FREQ

\* The machine of a tick after its channel timers, before the sequencer.
Timed(m) == timersStep([m EXCEPT !.apu.cycle = @ + 1])

\* Envelopes and linear counter; with the length counters and sweeps.
QuarterFrame(apu) == tickEnvelope(apu)
HalfFrame(apu) == tickLength(tickSweep(tickEnvelope(apu)))

\* What the claim has a step clock.
SequencerStep(apu, period, step) ==
    IF period = 4
    THEN IF step \in {0, 2} THEN QuarterFrame(apu) ELSE HalfFrame(apu)
    ELSE IF step \in {0, 2} THEN HalfFrame(apu)
    ELSE IF step \in {1, 3} THEN QuarterFrame(apu)
    ELSE apu

\* C30: on a tick across a 240 Hz boundary frame_val advances by one modulo
\* the period and the step's units are clocked: 4-step, steps 0 and 2
\* envelopes and linear counter, steps 1 and 3 also length counters and
\* sweeps, step 3 also the frame IRQ if enabled; 5-step, steps 0 and 2
\* all units, steps 1 and 3 envelopes and linear counter, step 4 nothing,
\* and never an IRQ.  Any other tick leaves the sequencer alone.
C30_FrameSequencer ==
    last.kind = "tick" =>
        LET pre == last.pre
            period == pre.apu.frame_period
            step == (pre.apu.frame_val + 1) % period
        IN  IF CrossesFrameStep(pre.apu.cycle)
            THEN /\ nes.apu.frame_val = step
                 /\ nes.apu = SequencerStep([Timed(pre).apu EXCEPT !.frame_val = step],
                                            period, step)
                 /\ nes.cpu =
                      IF period = 4 /\ step = 3 /\ pre.apu.frame_IRQ
                      THEN triggerIRQ(Timed(pre)).cpu
                      ELSE Timed(pre).cpu
            ELSE /\ nes.apu = Timed(pre).apu
                 /\ nes.cpu = Timed(pre).cpu

\* Step 3 of the 4-step sequence has started pulse 1's envelope, counted
\* its length counter down from 254 and requested the frame IRQ.
C30_Witness ==
    /\ last.kind = "tick"
    /\ CrossesFrameStep(last.pre.apu.cycle)
    /\ last.pre.apu.frame_period = 4
    /\ nes.apu.frame_val = 3
    /\ last.pre.apu.pulse1.envelope_start
    /\ ~nes.apu.pulse1.envelope_start
    /\ nes.apu.pulse1.envelope_vol = 15
    /\ last.pre.apu.pulse1.length_val = 254
    /\ nes.apu.pulse1.length_val = 253
    /\ last.pre.cpu.interrupt = interruptNone
    /\ nes.cpu.interrupt = interruptIRQ

\* C31: the frame sequencer's period is 4 or 5 in every state, written
\* $4017 or not, so that every tick across a 240 Hz boundary advances the
\* sequencer.
C31_FramePeriod ==
    /\ nes.apu.frame_period \in {4, 5}
    /\ (last.kind = "tick" /\ CrossesFrameStep(last.pre.apu.cycle)) =>
           nes.apu.frame_val # last.pre.apu.frame_val

\* C32: a write to $4009 or to $400D leaves every field of the APU as it
\* was.
C32_UnusedRegisters ==
    (last.kind = "write" /\ last.address \in {16393, 16397}) =>
        last.post.apu = last.pre.apu

\* The sprite slots with a non-transparent pixel at column x.
OpaqueSlots(ppu, x) ==
    {k \in 1..ppu.sprite_cnt :
        /\ x - ppu.sprite_pos[k] \in 0..7
        /\ ppu.sprite_patterns[k][(x - ppu.sprite_pos[k]) + 1] % 4 # 0}

\* At column x the first sprite slot with a non-transparent pixel is OAM
\* entry 0, and the sprites are shown there.
SpriteZeroAt(ppu, x) ==
    /\ ppu.flag_show_sprites # 0
    /\ ~(x < 8 /\ ppu.flag_show_left_sprites = 0)
    /\ OpaqueSlots(ppu, x) # {}
    /\ \E k \in OpaqueSlots(ppu, x) :
          /\ \A j \in OpaqueSlots(ppu, x) : k <= j
          /\ ppu.sprite_idx[k] = 0

\* At column x the background pixel is non-transparent and shown.
BackgroundAt(ppu, x) ==
    /\ ppu.flag_show_background # 0
    /\ ~(x < 8 /\ ppu.flag_show_left_background = 0)
    /\ ppu.tile_data[ppu.x + 1] % 4 # 0

\* C33: a tick takes flag_sprite_zero_hit from 0 to 1 only at a dot of
\* scanlines 0..239 with x = cycle - 1 < 255 where the selected sprite
\* pixel is OAM entry 0's and non-transparent over a non-transparent
\* background, neither masked; the flag falls only at dot 1 of scanline
\* 261, where it and flag_sprite_overflow are 0.
C33_ZeroHitFlag ==
    last.kind = "dot" =>
        /\ (last.pre.ppu.flag_sprite_zero_hit = 0 /\ nes.ppu.flag_sprite_zero_hit = 1) =>
               /\ nes.ppu.scanline <= 239
               /\ nes.ppu.cycle >= 1
               /\ nes.ppu.cycle - 1 < 255
               /\ SpriteZeroAt(last.pre.ppu, nes.ppu.cycle - 1)
               /\ BackgroundAt(last.pre.ppu, nes.ppu.cycle - 1)
        /\ (last.pre.ppu.flag_sprite_zero_hit = 1 /\ nes.ppu.flag_sprite_zero_hit = 0) =>
               (nes.ppu.scanline = 261 /\ nes.ppu.cycle = 1)
        /\ (nes.ppu.scanline = 261 /\ nes.ppu.cycle = 1) =>
               (nes.ppu.flag_sprite_zero_hit = 0 /\ nes.ppu.flag_sprite_overflow = 0)

\* The flag has risen at x = 7 with both left columns shown, and has been
\* cleared with the overflow flag at dot 1 of the pre-render line.
C33_Witness ==
    /\ last.kind = "dot"
    /\ \/ /\ last.pre.ppu.flag_sprite_zero_hit = 0
          /\ nes.ppu.flag_sprite_zero_hit = 1
          /\ nes.ppu.scanline = 239
          /\ nes.ppu.cycle = 8
          /\ nes.ppu.sprite_idx[1] = 0
       \/ /\ last.pre.ppu.flag_sprite_zero_hit = 1
          /\ last.pre.ppu.flag_sprite_overflow = 1
          /\ nes.ppu.scanline = 261
          /\ nes.ppu.cycle = 1
          /\ nes.ppu.flag_sprite_zero_hit = 0
          /\ nes.ppu.flag_sprite_overflow = 0

\* The OAM entries in range of the line: 0 <= scanline - y < height.
InRange(ppu) ==
    {s \in 0..63 :
        /\ ppu.oam_tbl[4 * s] <= ppu.scanline
        /\ ppu.scanline - ppu.oam_tbl[4 * s] < 8 * (1 + ppu.flag_sprite_size)}

\* The tick just made was the one onto dot 257 of a line.
EvaluationDot == last.kind = "dot" /\ nes.ppu.cycle = 257

\* What the claim has the evaluation of a visible line leave.
Evaluated(ppu, before) ==
    /\ ppu.sprite_cnt = IF Cardinality(InRange(ppu)) > 8 THEN 8
                        ELSE Cardinality(InRange(ppu))
    /\ \A k \in 1..ppu.sprite_cnt :
          \E s \in InRange(ppu) :
             /\ Cardinality({r \in InRange(ppu) : r < s}) = k - 1
             /\ ppu.sprite_idx[k] = s
             /\ ppu.sprite_pos[k] = ppu.oam_tbl[4 * s + 3]
             /\ ppu.sprite_priorities[k] = (ppu.oam_tbl[4 * s + 2] \div 32) % 2
    /\ ppu.flag_sprite_overflow =
          IF Cardinality(InRange(ppu)) > 8 THEN 1 ELSE before.flag_sprite_overflow

\* C34 as stated: evaluation at dot 257 of a visible line with rendering
\* on retains the first eight entries in range in OAM order, counts them
\* and sets sprite_overflow exactly for more than eight; sprite_cnt is
\* always in 0..8, and is 0 after dot 257 of any non-visible line.
C34_Original ==
    /\ nes.ppu.sprite_cnt \in 0..8
    /\ (EvaluationDot /\ nes.ppu.scanline < 240 /\ doRender(nes.ppu)) =>
           Evaluated(nes.ppu, last.pre.ppu)
    /\ (EvaluationDot /\ nes.ppu.scanline >= 240) => nes.ppu.sprite_cnt = 0

\* C34, amended: as stated, but sprite_cnt is 0 after dot 257 of a
\* non-visible line with rendering on at that dot; with rendering off the
\* dot leaves sprite_cnt as it was.
C34_SpriteEvaluation ==
    /\ nes.ppu.sprite_cnt \in 0..8
    /\ (EvaluationDot /\ nes.ppu.scanline < 240 /\ doRender(nes.ppu)) =>
           Evaluated(nes.ppu, last.pre.ppu)
    /\ (EvaluationDot /\ nes.ppu.scanline >= 240 /\ doRender(nes.ppu)) =>
           nes.ppu.sprite_cnt = 0
    /\ (EvaluationDot /\ ~doRender(nes.ppu)) =>
           nes.ppu.sprite_cnt = last.pre.ppu.sprite_cnt

\* Nine entries were in range of scanline 21: the slots hold OAM entries
\* 0, 2, ..., 14 and the overflow flag has been set.
C34_Witness ==
    /\ EvaluationDot
    /\ nes.ppu.scanline = 21
    /\ doRender(nes.ppu)
    /\ Cardinality(InRange(nes.ppu)) = 9
    /\ nes.ppu.sprite_cnt = 8
    /\ nes.ppu.sprite_idx = <<0, 2, 4, 6, 8, 10, 12, 14>>
    /\ nes.ppu.sprite_pos[8] = 56
    /\ nes.ppu.sprite_priorities[4] = 1
    /\ last.pre.ppu.flag_sprite_overflow = 0
    /\ nes.ppu.flag_sprite_overflow = 1

\* C35: after every write of $2000, $2005, $2006 and $2007, every read of
\* $2007 and every rendering tick, v and t are below 2^15.
C35_FifteenBits == nes.ppu.v < 32768 /\ nes.ppu.t < 32768

\* The controller a port reads, and the reads made of it since the strobe
\* fell.
PortController == IF last.address = 16406 THEN nes.controller1 ELSE nes.controller2
PortReads == IF last.address = 16406 THEN hist.n1 ELSE hist.n2

\* C36: after the strobe went 1 then 0, the n-th read of a port returns
\* button n - 1 of its controller (A, B, Select, Start, Up, Down, Left,
\* Right) for n <= 8 and 0 for every later read; the shift index stays in
\* 0..8; while the strobe is 1 every read returns button A.
C36_ControllerShift ==
    /\ nes.controller1.index \in 0..8
    /\ nes.controller2.index \in 0..8
    /\ (last.kind = "read" /\ hist.strobed /\ nes.controller1.strobe % 2 = 0) =>
           last.value = IF PortReads <= 8
                        THEN (PortController.buttons \div (2 ^ (PortReads - 1))) % 2
                        ELSE 0
    /\ (last.kind = "read" /\ nes.controller1.strobe % 2 = 1) =>
           last.value = PortController.buttons % 2

\* C37: the loaded mirror mode is Four if ctrl1 bit 3 is set, and then each
\* name table is its own; otherwise it is Vertical or Horizontal by ctrl1
\* bit 0; it is never Single0 or Single1.
C37_HeaderMirroring ==
    nes.loaded =>
        /\ nes.cartridge.mirror \notin {MirrorSingle0, MirrorSingle1}
        /\ nes.cartridge.mirror =
              IF (nes.ctrl1 \div 8) % 2 = 1 THEN MirrorFour
              ELSE IF nes.ctrl1 % 2 = 1 THEN MirrorVertical ELSE MirrorHorizontal
        /\ (last.kind = "ppu" /\ (nes.ctrl1 \div 8) % 2 = 1) =>
              last.mirrored = last.address

\* C38: for every supported mapper, every cartridge size and every sequence
\* of CPU writes to $8000-$FFFF, a mapper read uses a PRG index in
\* [0, prg_size) for CPU reads of $8000-$FFFF and a CHR index in
\* [0, chr_size) for PPU reads of $0000-$1FFF.
C38_MapperIndexes ==
    last.kind = "read" =>
        /\ last.index >= 0
        /\ last.index < IF last.array = "PRG" THEN nes.cartridge.prg_size
                        ELSE nes.cartridge.chr_size

\* C39: from power-on until a completed serial load writes the MMC1 control
\* register, a CPU read of $C000-$FFFF returns the byte of the last 16 KiB
\* PRG bank at that offset, whatever completed loads of the CHR-bank and
\* PRG-bank registers happened meanwhile.
C39_PowerOnLastBank ==
    (last.kind = "read" /\ ~hist.control) =>
        /\ last.index = nes.cartridge.prg_size - 16384 + (last.address - 49152)
        /\ last.value = PRG(nes.cartridge, last.index)

\* The cycles the call has consumed reach round(CPU_FREQ * seconds).
Reached == IF hist.request.half THEN hist.apuTicks > hist.request.whole
           ELSE hist.apuTicks >= hist.request.whole

=============================================================================
